---- MODULE Spec2Model ----
(***************************************************************************)
(* Model of the connection guard of common/src/network.rs: the event loop  *)
(* created by Network::create, which owns the single connection slot of    *)
(* NetworkContext and handles the transport's network events and the       *)
(* Broadcast signals queued by Network::send_packet; of the StatusSystem   *)
(* of robot/src/systems/status.rs; and of the RobotSystem of               *)
(* robot/src/systems/robot.rs.  Each has its own specification: Spec (the  *)
(* guard), SpecStatus, SpecMotor (the StatusSystem with the age of each    *)
(* motor's reading followed), SpecRobot, and SpecLink (the guard's         *)
(* callbacks feeding the StatusSystem).  SpecLock follows the RobotSystem  *)
(* step by step under the RwLock of the robot state; SpecSurface and       *)
(* SpecSurfaceFair are the Robot resource of surface/src/plugins/robot.rs  *)
(* under its systems, SpecEcho that resource and the StatusSystem side by  *)
(* side; SpecArming that resource with the operator's arm selection and    *)
(* the arming system; SpecPwm is Pca9685::set_pwm of                       *)
(* robot/src/peripheral_new/pca9685.rs.  SpecCallbacks is the guard with   *)
(* its last lifecycle callback followed, SpecPeers the StatusSystem with   *)
(* its peer events counted, SpecFeedback the StatusSystem receiving the    *)
(* Event::Store events of its own inserts.                                 *)
(*                                                                         *)
(* Time is the monotonic clock read by Instant::now(), in seconds; it      *)
(* advances in steps of TickSeconds.  The transport (message_io) reports   *)
(* Message and Disconnected only for endpoints it has reported Accepted or *)
(* Connected before; `open` keeps those endpoints.                         *)
(***************************************************************************)
EXTENDS Integers, Sequences, FiniteSets, TLC

\* ---------------------------------------------------------------- bounds

\* Seconds by which one step of the clock advances it.
TickSeconds == 5
\* Number of clock steps explored.
MaxTicks == 3
\* Number of distinct remote endpoints.
NumEndpoints == 3
\* Largest number of Broadcast signals waiting in the node's signal queue.
MaxQueue == 1
\* Largest absolute value of the StatusSystem's peer counter.
MaxPeers == 1
\* Largest number of updates in one StateUpdate batch.
MaxBatch == 2
\* Capacity of the surface's update channel (`bounded(50)` in the code).
MaxChannel == 2

\* ------------------------------------------------------------- constants

\* const TIMEOUT: Duration = Duration::from_secs(10)
TIMEOUT == 10

Endpoints == 1..NumEndpoints
\* An endpoint id that names no endpoint.
NoEndpoint == NumEndpoints + 1
\* Largest clock value explored.
MaxTime == MaxTicks * TickSeconds

\* Values of crate::protocol::Packet (opaque to the guard).
Packets == {"pkt"}
NoPacket == "none"
\* Outcome of `data.try_into()` on the bytes of a Message event.
DecodeError == "DecodeError"
DecodeResults == Packets \cup {DecodeError}
\* Outcome of `(&packet).try_into()` in write_packet.
EncodeResults == {"Encoded", "EncodeError"}
\* message_io::network::SendStatus
SendStatus == {"Sent", "MaxPacketSizeExceeded", "ResourceNotFound", "ResourceNotAvailable"}
\* anyhow::Result<()> of a callback or handler
Results == {"Ok", "Err"}

\* Option<Connection>
None == <<>>
Some(c) == <<c>>
\* struct Connection { endpoint, last_packet }
Connection(endpoint, last_packet) ==
    [endpoint |-> endpoint, last_packet |-> last_packet]

VARIABLES
    connection,   \* NetworkContext.connection: None or Some(Connection)
    now,          \* the monotonic clock
    running,      \* the node's event loop is processing events
    stop_called,  \* Network::stop has been called
    signals,      \* queue of WorkerEvent signals sent by send_packet
    ev,           \* record of the last event handled by handle_event
    error_logged, \* handle_event has written an error! line
    held_heard,   \* None, or Some(time the held endpoint last sent a Message
                  \* or was installed)
    open,         \* the endpoints with a live transport connection, the only
                  \* ones the transport reports Message and Disconnected for
    store,        \* StatusSystem: its Store, key -> None or Some(entry)
    peers,        \* StatusSystem: `peers`
    last_status,  \* StatusSystem: `last_status`, None or Some(status)
    st_ev,        \* record of the last event the StatusSystem handled
    st_exited,    \* the StatusSystem's thread has returned
    reading_since,\* per motor: None, or Some(arrival time of its stored reading)
    robot,        \* RobotSystem: the RobotState behind the RwLock
    rb_ev,        \* record of the last event the RobotSystem handled
    rb_exit_seen, \* the RobotSystem has received an Exit event
    inbox,        \* RobotSystem: the events waiting in its listener
    rb_pc,        \* RobotSystem: where its thread is, "idle" between events
    rb_cur,       \* RobotSystem: the StateUpdate batch it is handling
    readers,      \* the threads holding the read lock of the robot state
    sf_store,     \* surface: Robot.0, its Store
    channel,      \* surface: the bounded channel of Robot.1 / Robot.2
    sf_pc,        \* surface: "drain" while updates_to_packets runs, else "idle"
    sf_ev,        \* surface: record of the system run or event handled last
    pwm_dev,      \* the Pca9685 (its period and the chip's registers), or None
    pwm_ev,       \* record of the last call of Pca9685::set_pwm
    last_cb,      \* the connected or disconnected callback the guard invoked last
    peer_up,      \* the PeerConnected events the StatusSystem has processed
    peer_down,    \* the PeerDisconnected events the StatusSystem has processed
    loopback,     \* the Event::Store events of the StatusSystem's own inserts, on
                  \* their way back to it
    sf_armed,     \* surface: Robot.3, the operator's arm selection
    since_action, \* surface: the link's events since arm() or disarm() was called
    pwm_call      \* the arguments of the last call of Pca9685::set_pwm and the build

netvars == <<connection, now, running, stop_called, signals, ev, error_logged, held_heard,
             open>>
\* The StatusSystem's variables (it also reads the clock `now`).
statusvars == <<store, peers, last_status, st_ev, st_exited, reading_since>>
robotvars == <<robot, rb_ev, rb_exit_seen>>
\* The RobotSystem's thread and the RwLock, followed step by step.
lockvars == <<inbox, rb_pc, rb_cur, readers>>
\* The variables only the step-by-step specifications change.
\* The surface's Robot resource.
surfacevars == <<sf_store, channel, sf_pc, sf_ev>>
\* The PWM driver.
pwmvars == <<pwm_dev, pwm_ev, pwm_call>>
\* The history of the guard's callbacks.
cbvars == <<last_cb>>
\* The count of the peer events delivered to the StatusSystem.
peervars == <<peer_up, peer_down>>
\* The operator's arm selection.
armvars == <<sf_armed, since_action>>
extravars == <<lockvars, surfacevars, pwmvars, cbvars, peervars, loopback, armvars>>

vars == <<connection, now, running, stop_called, signals, ev, error_logged, held_heard,
          open, store, peers, last_status, st_ev, st_exited, reading_since,
          robot, rb_ev, rb_exit_seen, extravars>>

\* ------------------------------------------------------- callback records

\* One invocation of a method of the EventHandler trait.
Call(fn, endpoint, conn, packet, result) ==
    [fn |-> fn, endpoint |-> endpoint, conn |-> conn, packet |-> packet,
     result |-> result]

\* One call of handler.network().send(endpoint, &data).
Send(endpoint, packet, status) ==
    [endpoint |-> endpoint, packet |-> packet, status |-> status]

\* What a handler did: the slot it leaves, the callbacks it invoked, the
\* sends it attempted and the Result it returns.
Outcome(conn, calls, sends, ret) ==
    [connection |-> conn, calls |-> calls, sends |-> sends, ret |-> ret]

\* --------------------------------------------------- handle_network_event

\* previous.last_packet.elapsed(), the clock reading t
Elapsed(c, t) == t - c.last_packet

TimedOutInclusive(previous, t) == Elapsed(previous, t) >= TIMEOUT
\* previous.last_packet.elapsed() > TIMEOUT
TimedOut(previous, t) == Elapsed(previous, t) > TIMEOUT

AcceptedTakeoverDisconnects(conn, endpoint, t_new, t_check, cb) ==
    LET new == Connection(endpoint, t_new)
    IN IF conn # None
       THEN IF TimedOut(conn[1], t_check)
            THEN Outcome(Some(new),
                         <<Call("disconnected", conn[1].endpoint, None, NoPacket, "Ok"),
                           Call("connected", endpoint, None, NoPacket, cb)>>,
                         <<>>, cb)
            ELSE Outcome(conn, <<>>, <<>>, "Ok")
       ELSE Outcome(Some(new),
                    <<Call("connected", endpoint, None, NoPacket, cb)>>, <<>>, cb)
AcceptedRefreshesKept(conn, endpoint, t_new, t_check, cb) ==
    LET new == Connection(endpoint, t_new)
        installed == Outcome(Some(new),
                             <<Call("connected", endpoint, None, NoPacket, cb)>>,
                             <<>>, cb)
    IN IF conn # None
       THEN IF TimedOut(conn[1], t_check)
            THEN installed
            ELSE Outcome(Some(Connection(conn[1].endpoint, t_new)), <<>>, <<>>, "Ok")
       ELSE installed
AcceptedSilentInstall(conn, endpoint, t_new, t_check, cb) ==
    LET new == Connection(endpoint, t_new)
    IN IF conn # None
       THEN IF TimedOut(conn[1], t_check)
            THEN Outcome(Some(new), <<>>, <<>>, "Ok")
            ELSE Outcome(conn, <<>>, <<>>, "Ok")
       ELSE Outcome(Some(new),
                    <<Call("connected", endpoint, None, NoPacket, cb)>>, <<>>, cb)
\* NetEvent::Accepted(endpoint, _): t_new is Instant::now() of the candidate,
\* t_check the clock when elapsed() is evaluated, cb the connected callback's
\* result.
HandleAccepted(conn, endpoint, t_new, t_check, cb) ==
    LET new == Connection(endpoint, t_new)
        installed == Outcome(Some(new),
                             <<Call("connected", endpoint, None, NoPacket, cb)>>,
                             <<>>, cb)
    IN IF conn # None
       THEN IF TimedOut(conn[1], t_check)
            THEN installed
            ELSE Outcome(conn, <<>>, <<>>, "Ok")
       ELSE installed

ConnectedRespectsTimeout(conn, endpoint, success, t, cb) ==
    IF success
    THEN IF conn # None /\ ~TimedOut(conn[1], t)
         THEN Outcome(conn, <<>>, <<>>, "Ok")
         ELSE Outcome(Some(Connection(endpoint, t)),
                      <<Call("connected", endpoint, None, NoPacket, cb)>>, <<>>, cb)
    ELSE Outcome(conn,
                 <<Call("connection_failed", endpoint, None, NoPacket, cb)>>,
                 <<>>, cb)
ConnectedFailureClearsSlot(conn, endpoint, success, t, cb) ==
    IF success
    THEN Outcome(Some(Connection(endpoint, t)),
                 <<Call("connected", endpoint, None, NoPacket, cb)>>, <<>>, cb)
    ELSE Outcome(None,
                 <<Call("connection_failed", endpoint, None, NoPacket, cb)>>,
                 <<>>, cb)
\* NetEvent::Connected(endpoint, success)
HandleConnected(conn, endpoint, success, t, cb) ==
    IF success
    THEN Outcome(Some(Connection(endpoint, t)),
                 <<Call("connected", endpoint, None, NoPacket, cb)>>, <<>>, cb)
    ELSE Outcome(conn,
                 <<Call("connection_failed", endpoint, None, NoPacket, cb)>>,
                 <<>>, cb)

\* connection.last_packet = Instant::now()
RefreshLastPacket(c, t) == [c EXCEPT !.last_packet = t]

MessageOnlyFromHeld(conn, endpoint, decoded, t, cb) ==
    IF decoded = DecodeError
    THEN Outcome(conn, <<>>, <<>>, "Err")
    ELSE IF conn # None /\ conn[1].endpoint = endpoint
         THEN LET c == RefreshLastPacket(conn[1], t)
              IN Outcome(Some(c),
                         <<Call("handle_packet", NoEndpoint, Some(c), decoded, cb)>>,
                         <<>>, cb)
         ELSE Outcome(conn, <<>>, <<>>, "Ok")
MessageCallsBeforeRefresh(conn, endpoint, decoded, t, cb) ==
    IF decoded = DecodeError
    THEN Outcome(conn, <<>>, <<>>, "Err")
    ELSE IF conn # None
         THEN Outcome(Some(RefreshLastPacket(conn[1], t)),
                      <<Call("handle_packet", NoEndpoint, conn, decoded, cb)>>,
                      <<>>, cb)
         ELSE Outcome(conn, <<>>, <<>>, "Ok")
MessageAdoptsSender(conn, endpoint, decoded, t, cb) ==
    IF decoded = DecodeError
    THEN Outcome(conn, <<>>, <<>>, "Err")
    ELSE LET c == IF conn # None THEN RefreshLastPacket(conn[1], t)
                  ELSE Connection(endpoint, t)
         IN Outcome(Some(c),
                    <<Call("handle_packet", NoEndpoint, Some(c), decoded, cb)>>,
                    <<>>, cb)
MessageRefreshesBeforeDecode(conn, endpoint, decoded, t, cb) ==
    IF conn # None
    THEN LET c == RefreshLastPacket(conn[1], t)
         IN IF decoded = DecodeError
            THEN Outcome(Some(c), <<>>, <<>>, "Err")
            ELSE Outcome(Some(c),
                         <<Call("handle_packet", NoEndpoint, Some(c), decoded, cb)>>,
                         <<>>, cb)
    ELSE Outcome(conn, <<>>, <<>>, IF decoded = DecodeError THEN "Err" ELSE "Ok")
\* NetEvent::Message(endpoint, data): decoded is the result of data.try_into(),
\* t is Instant::now(), cb the handle_packet callback's result.
HandleMessage(conn, endpoint, decoded, t, cb) ==
    IF decoded = DecodeError
    THEN Outcome(conn, <<>>, <<>>, "Err")
    ELSE IF conn # None
         THEN LET c == RefreshLastPacket(conn[1], t)
              IN Outcome(Some(c),
                         <<Call("handle_packet", NoEndpoint, Some(c), decoded, cb)>>,
                         <<>>, cb)
         ELSE Outcome(conn, <<>>, <<>>, "Ok")

DisconnectedOnlyHeld(conn, endpoint, cb) ==
    IF conn # None /\ conn[1].endpoint = endpoint
    THEN Outcome(None, <<Call("disconnected", endpoint, None, NoPacket, cb)>>,
                 <<>>, cb)
    ELSE Outcome(conn, <<>>, <<>>, "Ok")
\* NetEvent::Disconnected(endpoint)
HandleDisconnected(conn, endpoint, cb) ==
    Outcome(None, <<Call("disconnected", endpoint, None, NoPacket, cb)>>,
            <<>>, cb)

\* ---------------------------------------------------- handle_signal_event

WritePacketRetries(c, packet, encoded, status) ==
    IF encoded = "EncodeError"
    THEN Outcome(Some(c), <<>>, <<>>, "Err")
    ELSE IF status = "Sent"
         THEN Outcome(Some(c), <<>>, <<Send(c.endpoint, packet, status)>>, "Ok")
         ELSE Outcome(Some(c), <<>>,
                      <<Send(c.endpoint, packet, status),
                        Send(c.endpoint, packet, status)>>, "Err")
\* Connection::write_packet: encode, one send, bail on a status other than Sent.
WritePacket(c, packet, encoded, status) ==
    IF encoded = "EncodeError"
    THEN Outcome(Some(c), <<>>, <<>>, "Err")
    ELSE Outcome(Some(c), <<>>, <<Send(c.endpoint, packet, status)>>,
                 IF status = "Sent" THEN "Ok" ELSE "Err")

\* WorkerEvent::Broadcast(packet)
HandleBroadcast(conn, packet, encoded, status) ==
    IF conn # None
    THEN WritePacket(conn[1], packet, encoded, status)
    ELSE Outcome(conn, <<>>, <<>>, "Ok")

\* ------------------------------------------------------------ handle_event

LoopDiesOnError(ret) == [logged |-> FALSE, running |-> ret = "Ok"]
\* handle_event: an Err of the handler is logged with error! and dropped; the
\* closure given to for_each_async returns and the loop takes the next event.
HandleEvent(ret) == [logged |-> ret = "Err", running |-> TRUE]

\* The record kept of the event just handled.
EventRecord(kind, endpoint, arg, pre, t_new, t_check, out, h) ==
    [kind |-> kind, endpoint |-> endpoint, arg |-> arg, pre |-> pre,
     t_new |-> t_new, t_check |-> t_check, calls |-> out.calls,
     sends |-> out.sends, ret |-> out.ret, logged |-> h.logged]

NoEvent ==
    [kind |-> "none", endpoint |-> NoEndpoint, arg |-> "none", pre |-> None,
     t_new |-> 0, t_check |-> 0, calls |-> <<>>, sends |-> <<>>, ret |-> "Ok",
     logged |-> FALSE]

\* The time the held endpoint was last heard from, after an event from
\* `endpoint` that left the slot `post` (pre: the slot before).
Heard(pre, post, endpoint, isMessage, t) ==
    IF post = None THEN None
    ELSE IF pre = None \/ pre[1].endpoint # post[1].endpoint
              \/ (~isMessage /\ pre # post)
         THEN Some(t)
         ELSE IF isMessage /\ endpoint = post[1].endpoint THEN Some(t)
              ELSE held_heard

\* Effect of handle_event on the state, for a network event.
Handled(kind, endpoint, arg, t_new, t_check, out) ==
    LET h == HandleEvent(out.ret)
    IN /\ connection' = out.connection
       /\ ev' = EventRecord(kind, endpoint, arg, connection, t_new, t_check, out, h)
       /\ error_logged' = (error_logged \/ h.logged)
       /\ running' = h.running
       /\ now' = t_check
       /\ held_heard' = Heard(connection, out.connection, endpoint,
                              kind = "Message", t_new)

\* --------------------------------------------------------------- actions

NetInit ==
    /\ connection = None
    /\ now = 0
    /\ running = TRUE
    /\ stop_called = FALSE
    /\ signals = <<>>
    /\ ev = NoEvent
    /\ error_logged = FALSE
    /\ held_heard = None
    /\ open = {}

\* Time passes.
Tick ==
    /\ now + TickSeconds <= MaxTime
    /\ now' = now + TickSeconds
    /\ UNCHANGED <<connection, running, stop_called, signals, ev, error_logged, held_heard,
                   open>>

\* The listener accepted a connection from `endpoint`. The handler's two
\* clock reads (Instant::now() for the candidate, then elapsed()) fall in the
\* same clock step.
NetAccepted(endpoint, cb) ==
    /\ running
    /\ endpoint \notin open
    /\ open' = open \cup {endpoint}
    /\ Handled("Accepted", endpoint, "none", now, now,
               HandleAccepted(connection, endpoint, now, now, cb))
    /\ UNCHANGED <<stop_called, signals>>

\* An outbound connect to `endpoint` completed.
NetConnected(endpoint, success, cb) ==
    /\ running
    /\ endpoint \notin open
    /\ open' = IF success THEN open \cup {endpoint} ELSE open
    /\ Handled("Connected", endpoint, IF success THEN "success" ELSE "failure", now, now,
               HandleConnected(connection, endpoint, success, now, cb))
    /\ UNCHANGED <<stop_called, signals>>

\* A frame arrived from `endpoint`.
NetMessage(endpoint, decoded, cb) ==
    /\ running
    /\ endpoint \in open
    /\ open' = open
    /\ Handled("Message", endpoint, decoded, now, now,
               HandleMessage(connection, endpoint, decoded, now, cb))
    /\ UNCHANGED <<stop_called, signals>>

\* The transport reports that `endpoint` disconnected.
NetDisconnected(endpoint, cb) ==
    /\ running
    /\ endpoint \in open
    /\ open' = open \ {endpoint}
    /\ Handled("Disconnected", endpoint, "none", now, now,
               HandleDisconnected(connection, endpoint, cb))
    /\ UNCHANGED <<stop_called, signals>>

SendPacketWritesDirectly(packet) ==
    /\ Len(signals) < MaxQueue
    /\ IF connection # None
       THEN LET out == HandleBroadcast(connection, packet, "Encoded", "Sent")
            IN /\ ev' = EventRecord("Broadcast", NoEndpoint, <<packet, "Encoded">>,
                                    connection, now, now, out, HandleEvent(out.ret))
               /\ signals' = signals
       ELSE /\ signals' = Append(signals, packet)
            /\ ev' = ev
    /\ UNCHANGED <<connection, now, running, stop_called, error_logged, held_heard,
                   open>>
\* Network::send_packet, called from any thread: queue a Broadcast signal.
SendPacket(packet) ==
    /\ Len(signals) < MaxQueue
    /\ signals' = Append(signals, packet)
    /\ UNCHANGED <<connection, now, running, stop_called, ev, error_logged, held_heard,
                   open>>

\* The event loop takes the next signal.
Signal(encoded, status) ==
    /\ running
    /\ signals # <<>>
    /\ LET packet == Head(signals)
           out == HandleBroadcast(connection, packet, encoded, status)
           h == HandleEvent(out.ret)
       IN /\ connection' = out.connection
          /\ ev' = EventRecord("Broadcast", NoEndpoint,
                               <<packet, IF connection # None THEN encoded ELSE "none">>,
                               connection, now, now, out, h)
          /\ error_logged' = (error_logged \/ h.logged)
          /\ running' = h.running
    /\ signals' = Tail(signals)
    /\ UNCHANGED <<now, stop_called, held_heard, open>>

StopDoesNotWait ==
    /\ stop_called' = TRUE
    /\ UNCHANGED <<connection, now, running, signals, ev, error_logged, held_heard, open>>
\* Network::stop: handler.stop() then task.wait().
Stop ==
    /\ running' = FALSE
    /\ stop_called' = TRUE
    /\ UNCHANGED <<connection, now, signals, ev, error_logged, held_heard, open>>


\* The callbacks of the EventHandler trait that tell of a connection's
\* beginning and end, as the guard invokes them one after the other.
LifecycleCall(fn, endpoint) == [fn |-> fn, endpoint |-> endpoint]
NoLifecycleCall == LifecycleCall("none", NoEndpoint)
RECURSIVE LastLifecycle(_, _)
LastLifecycle(last, calls) ==
    IF calls = <<>> THEN last
    ELSE LastLifecycle(IF Head(calls).fn \in {"connected", "disconnected"}
                       THEN LifecycleCall(Head(calls).fn, Head(calls).endpoint)
                       ELSE last,
                       Tail(calls))

CallbackInit == last_cb = NoLifecycleCall

\* The guard handles an event and the callbacks it invoked are noted.
Noted == last_cb' = LastLifecycle(last_cb, ev'.calls)

\* ------------------------------------------------- common::store (Store)

\* tokens::ARMED, tokens::MOTOR_SPEED, tokens::STATUS
ARMED == "armed"
MOTOR_SPEED == "motor_speed"
STATUS == "status"
Keys == {ARMED, MOTOR_SPEED, STATUS}

\* common::types::Armed
ArmedValues == {"Armed", "Disarmed"}
\* The motors a speed map may name, and the speed (percent) explored for each.
Motors == {"A", "B"}
Speeds == [k \in Motors |-> IF k = "A" THEN 40 ELSE -61]
\* Values of tokens::MOTOR_SPEED: a map from some of the motors to their speed.
SpeedMaps == {[k \in D |-> Speeds[k]] : D \in SUBSET Motors}

\* common::types::RobotStatus
StatusOf(tag, speed) == [tag |-> tag, speed |-> speed]
NoPeer == StatusOf("NoPeer", 0)
Disarmed == StatusOf("Disarmed", 0)
Ready == StatusOf("Ready", 0)
Moving(percent) == StatusOf("Moving", percent)

\* motor::MAX_UPDATE_AGE: one clock step, so that ages below, at and above it
\* occur.
MAX_UPDATE_AGE == TickSeconds

\* A store entry: the value, its last-write time and whether it was authored
\* locally ("owned") or received from the peer ("shared").
Entry(value, written, origin) ==
    [value |-> value, written |-> written, origin |-> origin]

\* Update: a key with None (delete) or Some(value).
Update(key, payload) == [key |-> key, payload |-> payload]

\* Store::new
EmptyStore == [k \in Keys |-> None]

\* Store::get
Get(st, key) == IF st[key] = None THEN None ELSE Some(st[key][1].value)

GetAliveStrict(st, key, max_age, t) ==
    IF st[key] # None /\ t - st[key][1].written < max_age
    THEN Some(st[key][1].value)
    ELSE None
\* Store::get_alive at clock t: None when the last write is older than max_age.
GetAlive(st, key, max_age, t) ==
    IF st[key] # None /\ t - st[key][1].written <= max_age
    THEN Some(st[key][1].value)
    ELSE None

\* Store::handle_update_shared at clock t: store the received value, or delete
\* the key for a None payload; the update callback is not invoked.
HandleUpdateShared(st, update, t) ==
    IF update.payload = None
    THEN [st EXCEPT ![update.key] = None]
    ELSE [st EXCEPT ![update.key] = Some(Entry(update.payload[1], t, "shared"))]

\* Store::reset_shared: drop the entries received from the peer.
ResetShared(st) ==
    [k \in DOMAIN st |->
        IF st[k] # None /\ st[k][1].origin = "shared" THEN None ELSE st[k]]

\* Store::reset: drop every entry.
Reset(st) == [k \in DOMAIN st |-> None]

\* Store::handle_update_owned at clock t: store a value this process emitted
\* as locally authored, or delete the key for a None payload; the update
\* callback is not invoked.
HandleUpdateOwned(st, update, t) ==
    [store |-> IF update.payload = None
               THEN [st EXCEPT ![update.key] = None]
               ELSE [st EXCEPT ![update.key] = Some(Entry(update.payload[1], t, "owned"))],
     emitted |-> <<>>]

\* Store::insert at clock t: store the value as locally authored and hand the
\* update to the callback, here `events.send(Event::Store(update))`.
Insert(st, key, value, t) ==
    [store |-> [st EXCEPT ![key] = Some(Entry(value, t, "owned"))],
     emitted |-> <<[event |-> "Store", update |-> Update(key, Some(value))]>>]

\* ------------------------------------------ robot/src/systems/status.rs

Abs(x) == IF x < 0 THEN -x ELSE x

\* speeds.values().map(|it| it.to_f64().abs()).max_by(f64::total_cmp)
MaxSpeed(speeds) ==
    IF DOMAIN speeds = {} THEN None
    ELSE Some(CHOOSE x \in {Abs(speeds[m]) : m \in DOMAIN speeds} :
                 \A m \in DOMAIN speeds : Abs(speeds[m]) <= x)

ComputeStatusIgnoresAge(st, p, t) ==
    IF p = 0 THEN NoPeer
    ELSE LET armed == Get(st, ARMED)
         IN IF armed # None /\ armed[1] = "Armed"
            THEN LET speeds == Get(st, MOTOR_SPEED)
                 IN IF speeds # None /\ MaxSpeed(speeds[1]) # None
                    THEN Moving(MaxSpeed(speeds[1])[1])
                    ELSE Ready
            ELSE Disarmed
ComputeStatusStrictAge(st, p, t) ==
    IF p = 0 THEN NoPeer
    ELSE LET armed == Get(st, ARMED)
         IN IF armed # None /\ armed[1] = "Armed"
            THEN LET speeds == GetAliveStrict(st, MOTOR_SPEED, MAX_UPDATE_AGE, t)
                 IN IF speeds # None /\ MaxSpeed(speeds[1]) # None
                    THEN Moving(MaxSpeed(speeds[1])[1])
                    ELSE Ready
            ELSE Disarmed
\* compute_status(&store, peers) at clock t
ComputeStatus(st, p, t) ==
    IF p = 0 THEN NoPeer
    ELSE LET armed == Get(st, ARMED)
         IN IF armed # None /\ armed[1] = "Armed"
            THEN LET speeds == GetAlive(st, MOTOR_SPEED, MAX_UPDATE_AGE, t)
                 IN IF speeds # None /\ MaxSpeed(speeds[1]) # None
                    THEN Moving(MaxSpeed(speeds[1])[1])
                    ELSE Ready
            ELSE Disarmed

\* The events of crate::event::Event the StatusSystem matches; "Other" stands
\* for every variant it does not name.
StatusEventKinds ==
    {"PeerConnected", "PeerDisconnected", "Store", "ResetForignStore",
     "SyncStore", "Error", "Exit", "Other"}

MatchEventSyncKeepsLast(st, p, last, kind, update, t) ==
    CASE kind = "PeerConnected" ->
            [store |-> st, peers |-> p + 1, last |-> last, recompute |-> TRUE]
      [] kind = "PeerDisconnected" ->
            [store |-> st, peers |-> p - 1, last |-> last, recompute |-> TRUE]
      [] kind = "Store" ->
            [store |-> HandleUpdateShared(st, update, t), peers |-> p, last |-> last,
             recompute |-> TRUE]
      [] kind = "ResetForignStore" ->
            [store |-> ResetShared(st), peers |-> p, last |-> last, recompute |-> TRUE]
      [] kind \in {"SyncStore", "Error"} ->
            [store |-> st, peers |-> p, last |-> last, recompute |-> TRUE]
      [] OTHER ->
            [store |-> st, peers |-> p, last |-> last, recompute |-> FALSE]
MatchEventSaturates(st, p, last, kind, update, t) ==
    CASE kind = "PeerConnected" ->
            [store |-> st, peers |-> p + 1, last |-> last, recompute |-> TRUE]
      [] kind = "PeerDisconnected" ->
            [store |-> st, peers |-> IF p > 0 THEN p - 1 ELSE 0, last |-> last,
             recompute |-> TRUE]
      [] kind = "Store" ->
            [store |-> HandleUpdateShared(st, update, t), peers |-> p, last |-> last,
             recompute |-> TRUE]
      [] kind = "ResetForignStore" ->
            [store |-> ResetShared(st), peers |-> p, last |-> last, recompute |-> TRUE]
      [] kind = "SyncStore" ->
            [store |-> st, peers |-> p, last |-> None, recompute |-> TRUE]
      [] kind = "Error" ->
            [store |-> st, peers |-> p, last |-> last, recompute |-> TRUE]
      [] OTHER ->
            [store |-> st, peers |-> p, last |-> last, recompute |-> FALSE]

\* The `match &*event` of the loop: the state it leaves and whether the status
\* is to be recomputed. `update` is the payload of Event::Store.
MatchEvent(st, p, last, kind, update, t) ==
    CASE kind = "PeerConnected" ->
            [store |-> st, peers |-> p + 1, last |-> last, recompute |-> TRUE]
      [] kind = "PeerDisconnected" ->
            [store |-> st, peers |-> p - 1, last |-> last, recompute |-> TRUE]
      [] kind = "Store" ->
            [store |-> HandleUpdateShared(st, update, t), peers |-> p, last |-> last,
             recompute |-> TRUE]
      [] kind = "ResetForignStore" ->
            [store |-> ResetShared(st), peers |-> p, last |-> last, recompute |-> TRUE]
      [] kind = "SyncStore" ->
            [store |-> st, peers |-> p, last |-> None, recompute |-> TRUE]
      [] kind = "Error" ->
            [store |-> st, peers |-> p, last |-> last, recompute |-> TRUE]
      [] OTHER ->
            [store |-> st, peers |-> p, last |-> last, recompute |-> FALSE]

\* What one turn of the loop did.
StatusOutcome(st, p, last, recomputed, computed, inserted, emitted) ==
    [store |-> st, peers |-> p, last |-> last, recomputed |-> recomputed,
     computed |-> computed, inserted |-> inserted, emitted |-> emitted]

StatusLoopPublishesOnStore(st, p, last, kind, update, t) ==
    LET m == MatchEvent(st, p, last, kind, update, t)
    IN IF m.recompute
       THEN LET status == ComputeStatus(m.store, m.peers, t)
            IN IF m.last # Some(status) \/ kind = "Store"
               THEN LET ins == Insert(m.store, STATUS, status, t)
                    IN StatusOutcome(ins.store, m.peers, Some(status), TRUE,
                                     Some(status), Some(status), ins.emitted)
               ELSE StatusOutcome(m.store, m.peers, m.last, TRUE, Some(status),
                                  None, <<>>)
       ELSE StatusOutcome(m.store, m.peers, m.last, FALSE, None, None, <<>>)
StatusLoopAlwaysPublishes(st, p, last, kind, update, t) ==
    LET m == MatchEvent(st, p, last, kind, update, t)
    IN IF m.recompute
       THEN LET status == ComputeStatus(m.store, m.peers, t)
                ins == Insert(m.store, STATUS, status, t)
            IN StatusOutcome(ins.store, m.peers, Some(status), TRUE, Some(status),
                             Some(status), ins.emitted)
       ELSE StatusOutcome(m.store, m.peers, m.last, FALSE, None, None, <<>>)
\* One turn of `for event in listener` for an event other than Exit: the
\* match, then the recomputation and the insert of a status that differs from
\* last_status.
StatusLoopBody(st, p, last, kind, update, t) ==
    LET m == MatchEvent(st, p, last, kind, update, t)
    IN IF m.recompute
       THEN LET status == ComputeStatus(m.store, m.peers, t)
            IN IF m.last # Some(status)
               THEN LET ins == Insert(m.store, STATUS, status, t)
                    IN StatusOutcome(ins.store, m.peers, Some(status), TRUE,
                                     Some(status), Some(status), ins.emitted)
               ELSE StatusOutcome(m.store, m.peers, m.last, TRUE, Some(status),
                                  None, <<>>)
       ELSE StatusOutcome(m.store, m.peers, m.last, FALSE, None, None, <<>>)

\* The record kept of the event the StatusSystem just handled.
StatusEventRecord(kind, out) ==
    [kind |-> kind, recomputed |-> out.recomputed, computed |-> out.computed,
     inserted |-> out.inserted, emitted |-> out.emitted]

\* For each motor, the clock at which the reading the store holds for it
\* arrived: a map that repeats a motor's stored value carries the old reading
\* on, a new value or a motor not yet in the map is a reading of time t, and a
\* motor the map leaves out has none.
ReadingSince(st, since, kind, update, t) ==
    CASE kind = "Store" /\ update.key = MOTOR_SPEED /\ update.payload # None ->
            [k \in Motors |->
                IF k \notin DOMAIN update.payload[1] THEN None
                ELSE IF /\ st[MOTOR_SPEED] # None
                        /\ k \in DOMAIN st[MOTOR_SPEED][1].value
                        /\ st[MOTOR_SPEED][1].value[k] = update.payload[1][k]
                     THEN since[k]
                     ELSE Some(t)]
      [] kind = "Store" /\ update.key = MOTOR_SPEED /\ update.payload = None ->
            [k \in Motors |-> None]
      [] kind = "ResetForignStore" ->
            [k \in Motors |-> None]
      [] OTHER -> since

NoStatusEvent ==
    [kind |-> "none", recomputed |-> FALSE, computed |-> None, inserted |-> None,
     emitted |-> <<>>]

StatusInit ==
    /\ store = EmptyStore
    /\ peers = 0
    /\ last_status = None
    /\ st_ev = NoStatusEvent
    /\ st_exited = FALSE
    /\ reading_since = [k \in Motors |-> None]

\* The StatusSystem takes an event other than Exit from its listener.
StatusHandles(kind, update) ==
    /\ ~st_exited
    /\ LET out == StatusLoopBody(store, peers, last_status, kind, update, now)
       IN /\ Abs(out.peers) <= MaxPeers
          /\ store' = out.store
          /\ peers' = out.peers
          /\ last_status' = out.last
          /\ st_ev' = StatusEventRecord(kind, out)
    /\ UNCHANGED <<st_exited, now>>

NoUpdate == Update("none", None)

StPeerConnected == StatusHandles("PeerConnected", NoUpdate)
StPeerDisconnected == StatusHandles("PeerDisconnected", NoUpdate)
\* Event::Store carrying an update of the armed flag.
StStoreArmed(payload) == StatusHandles("Store", Update(ARMED, payload))
\* Event::Store carrying an update of the motor speeds.
StStoreMotor(payload) == StatusHandles("Store", Update(MOTOR_SPEED, payload))
StResetForignStore == StatusHandles("ResetForignStore", NoUpdate)
StSyncStore == StatusHandles("SyncStore", NoUpdate)
StError == StatusHandles("Error", NoUpdate)
StOther == StatusHandles("Other", NoUpdate)

\* Event::Exit => return
StExit ==
    /\ ~st_exited
    /\ st_exited' = TRUE
    /\ st_ev' = [NoStatusEvent EXCEPT !.kind = "Exit"]
    /\ UNCHANGED <<store, peers, last_status, now>>

\* Time passes for the StatusSystem.
StTick ==
    /\ now + TickSeconds <= MaxTime
    /\ now' = now + TickSeconds
    /\ UNCHANGED statusvars

\* The event bus carrying the StatusSystem's own Event::Store events back to
\* its listener: each with the clock at which it was sent.
MaxLoopback == MaxQueue
Sent(event, at) == [update |-> event.update, at |-> at]
LoopbackInit == loopback = <<>>
\* events.send(Event::Store(update)) for what the turn just taken emitted.
Loopback(queue) ==
    /\ Len(queue) + Len(st_ev'.emitted) <= MaxLoopback
    /\ loopback' = queue \o [i \in 1..Len(st_ev'.emitted) |-> Sent(st_ev'.emitted[i], now)]
\* The listener yields the oldest of these events.
StFeedback ==
    /\ loopback # <<>>
    /\ StatusHandles("Store", Head(loopback).update)
    /\ Loopback(Tail(loopback))

\* The peer events counted as they are delivered, at most MaxPeerEvents of
\* each kind.
MaxPeerEvents == MaxPeers + 1
PeerInit == peer_up = 0 /\ peer_down = 0
CountedPeerConnected ==
    /\ peer_up < MaxPeerEvents
    /\ StPeerConnected
    /\ peer_up' = peer_up + 1
    /\ UNCHANGED peer_down
CountedPeerDisconnected ==
    /\ peer_down < MaxPeerEvents
    /\ StPeerDisconnected
    /\ peer_down' = peer_down + 1
    /\ UNCHANGED peer_up

\* ------------------------------------------- robot/src/systems/robot.rs

\* The fields of common::state::RobotState and the values explored for each.
Fields == {"armed", "motor"}
Values == {0, 1}
\* One per-field update of a StateUpdate batch.
FieldUpdate(field, value) == [field |-> field, value |-> value]
FieldUpdates == {FieldUpdate(f, v) : f \in Fields, v \in Values}
\* The batches a StateUpdate event may carry.
Batches == UNION {[1..n -> FieldUpdates] : n \in 0..MaxBatch}

\* RobotState::update: store the value, and tell whether the field changed.
RobotUpdate(rs, update) ==
    [state |-> [rs EXCEPT ![update.field] = update.value],
     changed |-> rs[update.field] # update.value]

\* RobotState::to_updates: one update per field, in the field order.
ToUpdates(rs) ==
    <<FieldUpdate("armed", rs["armed"]), FieldUpdate("motor", rs["motor"])>>

\* Event::PacketSend(Protocol::RobotState(packets))
PacketSend(packets) == [event |-> "PacketSend", packets |-> packets]

\* `for update in updates { if robot.update(&update) { packets.push(..) } }`
RECURSIVE ApplyUpdates(_, _, _)
ApplyUpdates(rs, updates, packets) ==
    IF updates = <<>>
    THEN [state |-> rs, packets |-> packets]
    ELSE LET r == RobotUpdate(rs, Head(updates))
         IN ApplyUpdates(r.state, Tail(updates),
                         IF r.changed THEN Append(packets, Head(updates)) ELSE packets)

HandleStateUpdatePushesAll(rs, updates) ==
    [robot |-> ApplyUpdates(rs, updates, <<>>).state, sent |-> <<PacketSend(updates)>>]
\* Event::StateUpdate(updates): apply the batch under the write lock, then
\* send the updates that changed the state.
HandleStateUpdate(rs, updates) ==
    LET applied == ApplyUpdates(rs, updates, <<>>)
    IN [robot |-> applied.state, sent |-> <<PacketSend(applied.packets)>>]

\* Event::StateRefresh: send the whole state.
HandleStateRefresh(rs) ==
    [robot |-> rs, sent |-> <<PacketSend(ToUpdates(rs))>>]

\* `_ => {}`: every other event, Exit included, is ignored.
HandleIgnored(rs) == [robot |-> rs, sent |-> <<>>]

\* The record kept of the event the RobotSystem just handled.
RobotEventRecord(kind, batch, out) ==
    [kind |-> kind, batch |-> batch, pre |-> robot, sent |-> out.sent]

NoRobotEvent ==
    [kind |-> "none", batch |-> <<>>, pre |-> [f \in Fields |-> 0], sent |-> <<>>]

RobotInit ==
    /\ robot = [f \in Fields |-> 0]
    /\ rb_ev = NoRobotEvent
    /\ rb_exit_seen = FALSE

\* The RobotSystem takes an event from its listener.
RobotHandles(kind, batch, out) ==
    /\ robot' = out.robot
    /\ rb_ev' = RobotEventRecord(kind, batch, out)
    /\ rb_exit_seen' = (rb_exit_seen \/ kind = "Exit")

RbStateUpdate(updates) ==
    RobotHandles("StateUpdate", updates, HandleStateUpdate(robot, updates))
RbStateRefresh == RobotHandles("StateRefresh", <<>>, HandleStateRefresh(robot))
RbExit == RobotHandles("Exit", <<>>, HandleIgnored(robot))
RbOther == RobotHandles("Other", <<>>, HandleIgnored(robot))

\* ------------------------- robot/src/systems/robot.rs, step by step

\* The other threads that share the robot state and take its read lock.
Readers == {"motor", "network"}

\* An event of the bus as the RobotSystem's listener holds it.
BusEvent(kind, batch) == [kind |-> kind, batch |-> batch]
\* The batches published while the lock is followed: both fields, any values.
LockBatches ==
    {<<FieldUpdate("armed", a), FieldUpdate("motor", m)>> : a \in Values, m \in Values}
BusEvents ==
    {BusEvent("StateUpdate", b) : b \in LockBatches}
        \cup {BusEvent("StateRefresh", <<>>), BusEvent("Other", <<>>)}

\* Largest number of events waiting in the RobotSystem's listener.
MaxInbox == MaxQueue + 1

\* The batch in hand: the state before it, the updates still to apply and
\* the packets collected so far.
Current(batch, pre, rest, packets) ==
    [batch |-> batch, pre |-> pre, rest |-> rest, packets |-> packets]
NoCurrent == Current(<<>>, [f \in Fields |-> 0], <<>>, <<>>)

LockInit ==
    /\ inbox = <<>>
    /\ rb_pc = "idle"
    /\ rb_cur = NoCurrent
    /\ readers = {}

\* Some system publishes an event; the bus appends it to the listener.
Publish(event) ==
    /\ Len(inbox) < MaxInbox
    /\ inbox' = Append(inbox, event)
    /\ UNCHANGED <<robot, rb_pc, rb_cur, readers>>

NextEventNewest(queue) == queue[Len(queue)]
\* `for event in listner.into_iter()`: the event the loop handles next.
NextEvent(queue) == Head(queue)

AfterUpdateUnlocks(rest) == IF rest = <<>> THEN "write" ELSE "want"
\* Where the thread is after one `robot.update(&update)`: the write guard
\* lives to the end of the block, whatever is left of the batch.
AfterUpdate(rest) == "write"

\* The loop takes its next event. A StateUpdate leaves the thread at
\* `robot.write()`; StateRefresh reads under the read lock, which the thread
\* gets at once as it is the only writer; everything else is ignored.
RbTake ==
    /\ rb_pc = "idle"
    /\ inbox # <<>>
    /\ LET event == NextEvent(inbox)
       IN /\ inbox' = Tail(inbox)
          /\ IF event.kind = "StateUpdate"
             THEN /\ rb_pc' = "want"
                  /\ rb_cur' = Current(event.batch, robot, event.batch, <<>>)
             ELSE UNCHANGED <<rb_pc, rb_cur>>
    /\ UNCHANGED <<robot, readers>>

\* `robot.write()` returns once no reader holds the lock.
RbAcquire ==
    /\ rb_pc = "want"
    /\ readers = {}
    /\ rb_pc' = "write"
    /\ UNCHANGED <<robot, inbox, rb_cur, readers>>

\* One turn of `for update in updates`.
RbApply ==
    /\ rb_pc = "write"
    /\ rb_cur.rest # <<>>
    /\ LET update == Head(rb_cur.rest)
           r == RobotUpdate(robot, update)
       IN /\ robot' = r.state
          /\ rb_cur' = [rb_cur EXCEPT
                           !.rest = Tail(rb_cur.rest),
                           !.packets = IF r.changed THEN Append(@, update) ELSE @]
          /\ rb_pc' = AfterUpdate(Tail(rb_cur.rest))
    /\ UNCHANGED <<inbox, readers>>

\* The end of the block: the write guard is dropped.
RbRelease ==
    /\ rb_pc = "write"
    /\ rb_cur.rest = <<>>
    /\ rb_pc' = "send"
    /\ UNCHANGED <<robot, inbox, rb_cur, readers>>

\* events.send(Event::PacketSend(Protocol::RobotState(packets)))
RbSend ==
    /\ rb_pc = "send"
    /\ rb_pc' = "idle"
    /\ rb_cur' = NoCurrent
    /\ UNCHANGED <<robot, inbox, readers>>

WriteLockedWhileSending(pc) == pc \in {"write", "send"}
\* Where the thread holds the write guard: from `robot.write()` returning to
\* the end of the block around the loop, which ends before events.send.
WriteLocked(pc) == pc = "write"

\* Another thread takes the read lock: `robot.read()` returns while no
\* writer holds the lock.
ReaderAcquire(r) ==
    /\ r \notin readers
    /\ ~WriteLocked(rb_pc)
    /\ readers' = readers \cup {r}
    /\ UNCHANGED <<robot, inbox, rb_pc, rb_cur>>

\* The read guard is dropped.
ReaderRelease(r) ==
    /\ r \in readers
    /\ readers' = readers \ {r}
    /\ UNCHANGED <<robot, inbox, rb_pc, rb_cur>>

\* ------------------------------------------ surface/src/plugins/robot.rs

\* A token the adapter table has no entry for.
ORPHAN == "orphan"
\* The tokens of the surface's store.
SurfaceKeys == {ARMED, STATUS, ORPHAN}
\* Adapters: the keys tokens::generate_adaptors() covers.
HasAdapter(key) == key # ORPHAN

\* The updates the robot sends: its status, its deletion, the armed flag.
SharedUpdates ==
    {Update(STATUS, Some(Ready)), Update(STATUS, None), Update(ARMED, Some("Armed"))}
\* store::create_update / store::create_delete as the surface's systems call
\* them.
EmittedUpdates ==
    {Update(ARMED, Some(a)) : a \in ArmedValues}
        \cup {Update(ARMED, None), Update(ORPHAN, Some("Armed"))}

\* adapter.serialize(&*data) when it succeeds: the bytes of the value.
Serialize(value) == [bytes |-> value]
\* NetworkEvent::SendPacket(Protocol::Store(key, data))
StorePacket(key, data) == [key |-> key, data |-> data]

\* The RobotEvents update_robot matches; "Other" stands for Ping and Error.
RobotEventKinds == {"Store", "Connected", "Disconnected", "Other"}

\* Sender::try_send on the bounded channel: the update is queued, or the
\* channel is full and an error is logged.
TrySend(queue, updates) ==
    IF updates = <<>> THEN [queue |-> queue, errors |-> 0]
    ELSE IF Len(queue) < MaxChannel
         THEN [queue |-> Append(queue, updates[1]), errors |-> 0]
         ELSE [queue |-> queue, errors |-> 1]

UpdateRobotInserts(st, kind, update, t) ==
    CASE kind = "Store" /\ update.payload # None ->
            [store |-> Insert(st, update.key, update.payload[1], t).store,
             emitted |-> <<update>>]
      [] kind = "Store" /\ update.payload = None ->
            [store |-> HandleUpdateShared(st, update, t), emitted |-> <<>>]
      [] kind \in {"Connected", "Disconnected"} -> [store |-> Reset(st), emitted |-> <<>>]
      [] OTHER -> [store |-> st, emitted |-> <<>>]
UpdateRobotDeleteResets(st, kind, update, t) ==
    CASE kind = "Store" /\ update.payload # None ->
            [store |-> HandleUpdateShared(st, update, t), emitted |-> <<>>]
      [] kind = "Store" /\ update.payload = None ->
            [store |-> ResetShared(st), emitted |-> <<>>]
      [] kind \in {"Connected", "Disconnected"} -> [store |-> Reset(st), emitted |-> <<>>]
      [] OTHER -> [store |-> st, emitted |-> <<>>]
\* update_robot, for one event: the store it leaves and the updates the
\* store handed to its callback.
UpdateRobot(st, kind, update, t) ==
    CASE kind = "Store" ->
            [store |-> HandleUpdateShared(st, update, t), emitted |-> <<>>]
      [] kind \in {"Connected", "Disconnected"} -> [store |-> Reset(st), emitted |-> <<>>]
      [] OTHER -> [store |-> st, emitted |-> <<>>]

\* What one turn of the loop of updates_to_packets did.
Drained(st, emitted, sent, errors) ==
    [store |-> st, emitted |-> emitted, sent |-> sent, errors |-> errors]

DrainStepFoldsWhenSent(st, update, serialized, t) ==
    LET owned == HandleUpdateOwned(st, update, t)
    IN IF HasAdapter(update.key)
       THEN IF update.payload # None
            THEN IF serialized
                 THEN Drained(owned.store, owned.emitted,
                              <<StorePacket(update.key, Some(Serialize(update.payload[1])))>>, 0)
                 ELSE Drained(st, <<>>, <<>>, 1)
            ELSE Drained(owned.store, owned.emitted, <<StorePacket(update.key, None)>>, 0)
       ELSE Drained(st, <<>>, <<>>, 1)
DrainStepRequeues(st, update, serialized, t) ==
    LET ins == [store |-> HandleUpdateOwned(st, update, t).store, emitted |-> <<update>>]
    IN IF HasAdapter(update.key)
       THEN IF update.payload # None
            THEN IF serialized
                 THEN Drained(ins.store, ins.emitted,
                              <<StorePacket(update.key, Some(Serialize(update.payload[1])))>>, 0)
                 ELSE Drained(ins.store, ins.emitted, <<>>, 1)
            ELSE Drained(ins.store, ins.emitted, <<StorePacket(update.key, None)>>, 0)
       ELSE Drained(ins.store, ins.emitted, <<>>, 1)
DrainStepSendsUnencoded(st, update, serialized, t) ==
    LET owned == HandleUpdateOwned(st, update, t)
    IN IF update.payload # None
       THEN Drained(owned.store, owned.emitted,
                    <<StorePacket(update.key, Some(Serialize(update.payload[1])))>>,
                    IF HasAdapter(update.key) /\ serialized THEN 0 ELSE 1)
       ELSE Drained(owned.store, owned.emitted, <<StorePacket(update.key, None)>>, 0)
\* One turn of `for update in robot.2.try_iter()`: fold the update into the
\* store, look the adapter up, serialize, and send the packet or log the
\* error. `serialized` tells whether adapter.serialize returns Some.
DrainStep(st, update, serialized, t) ==
    LET owned == HandleUpdateOwned(st, update, t)
    IN IF HasAdapter(update.key)
       THEN IF update.payload # None
            THEN IF serialized
                 THEN Drained(owned.store, owned.emitted,
                              <<StorePacket(update.key, Some(Serialize(update.payload[1])))>>, 0)
                 ELSE Drained(owned.store, owned.emitted, <<>>, 1)
            ELSE Drained(owned.store, owned.emitted, <<StorePacket(update.key, None)>>, 0)
       ELSE Drained(owned.store, owned.emitted, <<>>, 1)

\* The record kept of what the surface did last: for a run of
\* updates_to_packets, the channel it started from, the updates taken, which
\* of them serialized, the packets sent and the errors logged so far.
SurfaceRecord(kind, update, start, taken, flags, sent, errors) ==
    [kind |-> kind, update |-> update, start |-> start, taken |-> taken,
     flags |-> flags, sent |-> sent, errors |-> errors]
NoSurfaceEvent == SurfaceRecord("none", NoUpdate, <<>>, <<>>, <<>>, <<>>, 0)

SurfaceInit ==
    /\ sf_store = [k \in SurfaceKeys |-> None]
    /\ channel = <<>>
    /\ sf_pc = "idle"
    /\ sf_ev = NoSurfaceEvent

\* update_robot handles one RobotEvent.
SfEvent(kind, update) ==
    /\ sf_pc = "idle"
    /\ LET out == UpdateRobot(sf_store, kind, update, now)
           sent == TrySend(channel, out.emitted)
       IN /\ sf_store' = out.store
          /\ channel' = sent.queue
          /\ sf_ev' = SurfaceRecord(kind, update, <<>>, <<>>, <<>>, <<>>, sent.errors)
    /\ UNCHANGED sf_pc

\* Updater::emit_update / emit_delete: try_send on the channel.
SfEmit(update) ==
    /\ sf_pc = "idle"
    /\ LET sent == TrySend(channel, <<update>>)
       IN /\ channel' = sent.queue
          /\ sf_ev' = SurfaceRecord("Emit", update, <<>>, <<>>, <<>>, <<>>, sent.errors)
    /\ UNCHANGED <<sf_store, sf_pc>>

\* updates_to_packets starts.
SfDrainStart ==
    /\ sf_pc = "idle"
    /\ sf_pc' = "drain"
    /\ sf_ev' = SurfaceRecord("Drain", NoUpdate, channel, <<>>, <<>>, <<>>, 0)
    /\ UNCHANGED <<sf_store, channel>>

\* One turn of its loop: try_iter yields the oldest update of the channel.
SfDrainStep(serialized) ==
    /\ sf_pc = "drain"
    /\ channel # <<>>
    /\ LET update == Head(channel)
           out == DrainStep(sf_store, update, serialized, now)
           back == TrySend(Tail(channel), out.emitted)
       IN /\ sf_store' = out.store
          /\ channel' = back.queue
          /\ sf_ev' = [sf_ev EXCEPT !.taken = Append(@, update),
                                    !.flags = Append(@, serialized),
                                    !.sent = @ \o out.sent,
                                    !.errors = @ + out.errors + back.errors]
    /\ UNCHANGED sf_pc

\* try_iter finds the channel empty: the loop and the system end.
SfDrainEnd ==
    /\ sf_pc = "drain"
    /\ channel = <<>>
    /\ sf_pc' = "idle"
    /\ UNCHANGED <<sf_store, channel, sf_ev>>

\* Robot::default: the selection starts as Armed::Disarmed.
ArmInit ==
    /\ sf_armed = "Disarmed"
    /\ since_action = "acted"

\* What the link has done since the operator's last action: nothing yet
\* ("acted"), dropped ("lost"), dropped and come back ("back").
SinceAction(since, kind) ==
    IF since = "acted" /\ kind = "Disconnected" THEN "lost"
    ELSE IF since = "lost" /\ kind = "Connected" THEN "back"
    ELSE since

\* Robot::arm and Robot::disarm, run by the command the menu's button queues:
\* self.3 = Armed::Armed, self.3 = Armed::Disarmed.
SfArm ==
    /\ sf_pc = "idle"
    /\ sf_armed' = "Armed"
    /\ since_action' = "acted"
    /\ sf_ev' = SurfaceRecord("Arm", NoUpdate, <<>>, <<>>, <<>>, <<>>, 0)
    /\ UNCHANGED <<sf_store, channel, sf_pc>>
SfDisarm ==
    /\ sf_pc = "idle"
    /\ sf_armed' = "Disarmed"
    /\ since_action' = "acted"
    /\ sf_ev' = SurfaceRecord("Disarm", NoUpdate, <<>>, <<>>, <<>>, <<>>, 0)
    /\ UNCHANGED <<sf_store, channel, sf_pc>>

ArmingUpdateFromStore(selection) ==
    Update(ARMED, IF sf_store[ARMED] = None THEN Some("Disarmed")
                  ELSE Some(sf_store[ARMED][1].value))
\* store::create_update(&tokens::ARMED, robot.3)
ArmingUpdate(selection) == Update(ARMED, Some(selection))

\* arming_system, once per fixed-update tick: emit_update of the selection.
SfArming ==
    /\ sf_pc = "idle"
    /\ LET sent == TrySend(channel, <<ArmingUpdate(sf_armed)>>)
       IN /\ channel' = sent.queue
          /\ sf_ev' = SurfaceRecord("Arming", ArmingUpdate(sf_armed), <<>>, <<>>, <<>>,
                                    <<>>, sent.errors)
    /\ UNCHANGED <<sf_store, sf_pc, armvars>>

\* update_robot with the link's events noted; it never touches Robot.3.
SfLinkEvent(kind, update) ==
    /\ SfEvent(kind, update)
    /\ since_action' = SinceAction(since_action, kind)
    /\ UNCHANGED sf_armed

\* ------------------------------------ robot/src/peripheral_new/pca9685.rs

\* u16 arithmetic.
U16 == 65536
AsU16(n) == n % U16

REG_LED0_OFF_L == 8
\* The channels set_pwm is called for; 16 is the first one out of range.
Channels == {0, 15, 16}
\* The pulse widths and periods, in microseconds.
PwmMicros == {0, 15, 16, 1500, 20000}
Periods == {16, 20000}

\* The outcome of pwm_to_raw: a value, or a panic.
Raw(raw) == [panic |-> FALSE, raw |-> raw]
RawPanic == [panic |-> TRUE, raw |-> 0]

\* pwm.as_micros() as u16 * 4096 / self.period.as_micros() as u16 - 1, in
\* u16. A zero divisor panics; a product past u16 or a zero quotient
\* overflows, which panics in a build with overflow checks and wraps in one
\* without (`wraps`).
PwmToRaw(pwm, period, wraps) ==
    LET product == AsU16(pwm) * 4096
        divisor == AsU16(period)
        quotient == AsU16(product) \div divisor
    IN IF divisor = 0 THEN RawPanic
       ELSE IF (product >= U16 \/ quotient = 0) /\ ~wraps THEN RawPanic
       ELSE Raw(AsU16(quotient - 1 + U16))

\* ((raw & 0x0f00) >> 8) as u8 and ((raw & 0x00ff) >> 0) as u8
Upper(raw) == (raw \div 256) % 16
Lower(raw) == raw % 256

\* channel_to_reg: assert!(channel < 16); REG_LED0_OFF_L + (4 * channel)
ChannelToReg(chan) == REG_LED0_OFF_L + 4 * chan
Registers == {ChannelToReg(c) : c \in {c \in Channels : c < 16}}

\* The Pca9685 and its chip: the period and the two bytes each register holds.
Device(period, regs) == [period |-> period, regs |-> regs]

\* What a call of set_pwm did: how it ended, the bytes it meant to write, the
\* outcomes of the two I2C transfers ("none": not attempted) and the bytes
\* read back.
PwmRecord(result, expected, write, read, observed) ==
    [result |-> result, expected |-> expected, write |-> write, read |-> read,
     observed |-> observed]
NoPwmEvent == PwmRecord("none", <<0, 0>>, "none", "none", <<0, 0>>)

\* The outcomes of an I2C transfer.
I2cResults == {"Ok", "Err"}

SetPwmUnchecked(dev, chan, pwm, wraps, write, latched, read) ==
    LET raw == PwmToRaw(pwm, dev.period, wraps)
        expected == <<Lower(raw.raw), Upper(raw.raw)>>
        register == ChannelToReg(chan)
        regs == IF latched THEN [dev.regs EXCEPT ![register] = expected] ELSE dev.regs
    IN IF raw.panic \/ ~(chan < 16)
       THEN [dev |-> dev, ev |-> PwmRecord("Panic", <<0, 0>>, "none", "none", <<0, 0>>)]
       ELSE IF write = "Err"
       THEN [dev |-> Device(dev.period, regs),
             ev |-> PwmRecord("Err", expected, write, "none", <<0, 0>>)]
       ELSE IF read = "Err"
       THEN [dev |-> Device(dev.period, regs),
             ev |-> PwmRecord("Err", expected, write, read, <<0, 0>>)]
       ELSE [dev |-> Device(dev.period, regs),
             ev |-> PwmRecord("Ok", expected, write, read, regs[register])]
\* set_pwm(channel, pwm). `write` and `read` are the outcomes of i2c.write
\* and i2c.write_read, `latched` tells whether the chip took the bytes.
SetPwm(dev, chan, pwm, wraps, write, latched, read) ==
    LET raw == PwmToRaw(pwm, dev.period, wraps)
        expected == <<Lower(raw.raw), Upper(raw.raw)>>
        register == ChannelToReg(chan)
        regs == IF latched THEN [dev.regs EXCEPT ![register] = expected] ELSE dev.regs
    IN IF raw.panic \/ ~(chan < 16)
       THEN [dev |-> dev, ev |-> PwmRecord("Panic", <<0, 0>>, "none", "none", <<0, 0>>)]
       ELSE IF write = "Err"
       THEN [dev |-> Device(dev.period, regs),
             ev |-> PwmRecord("Err", expected, write, "none", <<0, 0>>)]
       ELSE IF read = "Err"
       THEN [dev |-> Device(dev.period, regs),
             ev |-> PwmRecord("Err", expected, write, read, <<0, 0>>)]
       ELSE IF regs[register] # expected
       THEN [dev |-> Device(dev.period, regs),
             ev |-> PwmRecord("Err", expected, write, read, regs[register])]
       ELSE [dev |-> Device(dev.period, regs),
             ev |-> PwmRecord("Ok", expected, write, read, regs[register])]

\* The arguments of a call of set_pwm, and whether the build wraps on
\* overflow.
PwmCall(chan, pwm, wraps) == [chan |-> chan, pwm |-> pwm, wraps |-> wraps]

PwmInit ==
    /\ pwm_dev = None
    /\ pwm_ev = NoPwmEvent
    /\ pwm_call = PwmCall(0, 0, FALSE)

\* Pca9685::new(bus, address, period)
PwmNew(period) ==
    /\ pwm_dev = None
    /\ pwm_dev' = Some(Device(period, [r \in Registers |-> <<0, 0>>]))
    /\ UNCHANGED <<pwm_ev, pwm_call>>

\* A call of set_pwm on the device.
PwmSetPwm(chan, pwm, wraps, write, latched, read) ==
    /\ pwm_dev # None
    /\ LET out == SetPwm(pwm_dev[1], chan, pwm, wraps, write, latched, read)
       IN /\ pwm_dev' = Some(out.dev)
          /\ pwm_ev' = out.ev
    /\ pwm_call' = PwmCall(chan, pwm, wraps)

\* ---------------------------------------------------------- specifications



Init == NetInit /\ StatusInit /\ RobotInit /\ LockInit /\ SurfaceInit /\ PwmInit
        /\ CallbackInit /\ PeerInit /\ LoopbackInit /\ ArmInit

\* The connection guard alone: the other systems stand still.
NetOnly == UNCHANGED <<statusvars, robotvars, extravars>>

Next ==
    \/ Tick /\ NetOnly
    \/ \E e \in Endpoints, cb \in Results : NetAccepted(e, cb) /\ NetOnly
    \/ \E e \in Endpoints, s \in BOOLEAN, cb \in Results :
          NetConnected(e, s, cb) /\ NetOnly
    \/ \E e \in Endpoints, m \in DecodeResults, cb \in Results :
          NetMessage(e, m, cb) /\ NetOnly
    \/ \E e \in Endpoints, cb \in Results : NetDisconnected(e, cb) /\ NetOnly
    \/ \E p \in Packets : SendPacket(p) /\ NetOnly
    \/ \E enc \in EncodeResults, st \in SendStatus : Signal(enc, st) /\ NetOnly
    \/ Stop /\ NetOnly

Spec == Init /\ [][Next]_vars

\* The guard's network events with the last connected or disconnected
\* callback followed.
CallbackOnly ==
    UNCHANGED <<statusvars, robotvars, lockvars, surfacevars, pwmvars, peervars,
                loopback, armvars>>

CallbackNext ==
    \/ Tick /\ UNCHANGED last_cb /\ CallbackOnly
    \/ \E e \in Endpoints, cb \in Results : NetAccepted(e, cb) /\ Noted /\ CallbackOnly
    \/ \E e \in Endpoints, s \in BOOLEAN, cb \in Results :
          NetConnected(e, s, cb) /\ Noted /\ CallbackOnly
    \/ \E e \in Endpoints, m \in DecodeResults, cb \in Results :
          NetMessage(e, m, cb) /\ Noted /\ CallbackOnly
    \/ \E e \in Endpoints, cb \in Results : NetDisconnected(e, cb) /\ Noted /\ CallbackOnly

SpecCallbacks == Init /\ [][CallbackNext]_vars

\* The StatusSystem with its peer events counted.
PeerOnly ==
    UNCHANGED <<connection, running, stop_called, signals, ev, error_logged,
                held_heard, open, reading_since, robotvars, lockvars, surfacevars,
                pwmvars, cbvars, loopback, armvars>>

PeerNext ==
    \/ CountedPeerConnected /\ PeerOnly
    \/ CountedPeerDisconnected /\ PeerOnly
    \/ \E a \in ArmedValues : StStoreArmed(Some(a)) /\ UNCHANGED peervars /\ PeerOnly
    \/ \E m \in SpeedMaps : StStoreMotor(Some(m)) /\ UNCHANGED peervars /\ PeerOnly
    \/ StSyncStore /\ UNCHANGED peervars /\ PeerOnly
    \/ StTick /\ UNCHANGED peervars /\ PeerOnly

SpecPeers == Init /\ [][PeerNext]_vars

\* The StatusSystem receiving its own Event::Store events among the others.
FeedbackOnly ==
    UNCHANGED <<connection, running, stop_called, signals, ev, error_logged,
                held_heard, open, reading_since, robotvars, lockvars, surfacevars,
                pwmvars, cbvars, peervars, armvars>>

FeedbackNext ==
    \/ StPeerConnected /\ Loopback(loopback) /\ FeedbackOnly
    \/ \E a \in ArmedValues : StStoreArmed(Some(a)) /\ Loopback(loopback) /\ FeedbackOnly
    \/ StStoreMotor(Some(Speeds)) /\ Loopback(loopback) /\ FeedbackOnly
    \/ StFeedback /\ FeedbackOnly
    \/ StTick /\ UNCHANGED loopback /\ FeedbackOnly

SpecFeedback == Init /\ [][FeedbackNext]_vars

\* The StatusSystem alone, fed any sequence of events.
StatusOnly ==
    UNCHANGED <<connection, running, stop_called, signals, ev, error_logged,
                held_heard, open, reading_since, robotvars, extravars>>

StatusNext ==
    \/ StPeerConnected /\ StatusOnly
    \/ StPeerDisconnected /\ StatusOnly
    \/ \E a \in ArmedValues : StStoreArmed(Some(a)) /\ StatusOnly
    \/ StStoreArmed(None) /\ StatusOnly
    \/ \E m \in SpeedMaps : StStoreMotor(Some(m)) /\ StatusOnly
    \/ StStoreMotor(None) /\ StatusOnly
    \/ StResetForignStore /\ StatusOnly
    \/ StSyncStore /\ StatusOnly
    \/ StError /\ StatusOnly
    \/ StOther /\ StatusOnly
    \/ StExit /\ StatusOnly
    \/ StTick /\ StatusOnly

SpecStatus == Init /\ [][StatusNext]_vars

\* The StatusSystem fed motor-speed maps, with the age of each motor's reading
\* followed.
MotorOnly ==
    UNCHANGED <<connection, running, stop_called, signals, ev, error_logged,
                held_heard, open, robotvars, extravars>>

MotorNext ==
    \/ StPeerConnected /\ UNCHANGED reading_since /\ MotorOnly
    \/ \E a \in ArmedValues : StStoreArmed(Some(a)) /\ UNCHANGED reading_since /\ MotorOnly
    \/ \E m \in SpeedMaps :
          /\ StStoreMotor(Some(m))
          /\ reading_since' = ReadingSince(store, reading_since, "Store",
                                            Update(MOTOR_SPEED, Some(m)), now)
          /\ MotorOnly
    \/ /\ StStoreMotor(None)
       /\ reading_since' = ReadingSince(store, reading_since, "Store",
                                         Update(MOTOR_SPEED, None), now)
       /\ MotorOnly
    \/ StError /\ UNCHANGED reading_since /\ MotorOnly
    \/ StTick /\ UNCHANGED reading_since /\ MotorOnly

SpecMotor == Init /\ [][MotorNext]_vars

\* The robot's EventHandler: `connected` publishes Event::PeerConnected and
\* `disconnected` publishes Event::PeerDisconnected, which the StatusSystem
\* handles before the guard's next event; every other callback publishes
\* nothing the StatusSystem counts.
Deliver(calls) ==
    IF calls # <<>> /\ calls[1].fn = "connected"
    THEN StPeerConnected
    ELSE IF calls # <<>> /\ calls[1].fn = "disconnected"
         THEN StPeerDisconnected
         ELSE UNCHANGED <<store, peers, last_status, st_ev, st_exited>>

\* The guard's variables the link leaves alone, with the other systems.
LinkOnly == UNCHANGED <<reading_since, robotvars, extravars>>

\* The connection guard feeding the StatusSystem: the transport's events and
\* the clock.
LinkNext ==
    \/ Tick /\ UNCHANGED <<statusvars, robotvars, extravars>>
    \/ \E e \in Endpoints : NetAccepted(e, "Ok") /\ Deliver(ev'.calls) /\ LinkOnly
    \/ \E e \in Endpoints, s \in BOOLEAN :
          NetConnected(e, s, "Ok") /\ Deliver(ev'.calls) /\ LinkOnly
    \/ \E e \in Endpoints, m \in DecodeResults :
          NetMessage(e, m, "Ok") /\ Deliver(ev'.calls) /\ LinkOnly
    \/ \E e \in Endpoints : NetDisconnected(e, "Ok") /\ Deliver(ev'.calls) /\ LinkOnly

SpecLink == Init /\ [][LinkNext]_vars

\* The systems on the event bus: the RobotSystem fed any sequence of events,
\* and the StatusSystem fed Error and Exit events.
RobotOnly == UNCHANGED <<netvars, statusvars, extravars>>
BusStatusOnly == UNCHANGED <<netvars, reading_since, robotvars, extravars>>

RobotNext ==
    \/ \E b \in Batches : RbStateUpdate(b) /\ RobotOnly
    \/ RbStateRefresh /\ RobotOnly
    \/ RbExit /\ RobotOnly
    \/ RbOther /\ RobotOnly
    \/ StError /\ BusStatusOnly
    \/ StExit /\ BusStatusOnly

SpecRobot == Init /\ [][RobotNext]_vars

\* The RobotSystem's thread, the publishers of its events and the readers of
\* the robot state, interleaved step by step.
LockOnly ==
    UNCHANGED <<netvars, statusvars, rb_ev, rb_exit_seen, surfacevars, pwmvars, cbvars,
                peervars, loopback, armvars>>

LockNext ==
    \/ \E e \in BusEvents : Publish(e) /\ LockOnly
    \/ RbTake /\ LockOnly
    \/ RbAcquire /\ LockOnly
    \/ RbApply /\ LockOnly
    \/ RbRelease /\ LockOnly
    \/ RbSend /\ LockOnly
    \/ \E r \in Readers : ReaderAcquire(r) /\ LockOnly
    \/ \E r \in Readers : ReaderRelease(r) /\ LockOnly

SpecLock == Init /\ [][LockNext]_vars

\* The surface's Robot resource under its systems: update_robot fed any
\* RobotEvent, the systems that emit updates, and updates_to_packets.
SurfaceOnly ==
    UNCHANGED <<netvars, statusvars, robotvars, lockvars, pwmvars, cbvars, peervars,
                loopback, armvars>>

SurfaceNext ==
    \/ \E u \in SharedUpdates : SfEvent("Store", u) /\ SurfaceOnly
    \/ SfEvent("Connected", NoUpdate) /\ SurfaceOnly
    \/ SfEvent("Disconnected", NoUpdate) /\ SurfaceOnly
    \/ SfEvent("Other", NoUpdate) /\ SurfaceOnly
    \/ \E u \in EmittedUpdates : SfEmit(u) /\ SurfaceOnly
    \/ SfDrainStart /\ SurfaceOnly
    \/ \E ok \in BOOLEAN : SfDrainStep(ok) /\ SurfaceOnly
    \/ SfDrainEnd /\ SurfaceOnly

SpecSurface == Init /\ [][SurfaceNext]_vars

\* The same, with updates_to_packets running on once it has started: a turn
\* of its loop or its end is never put off for ever.
SpecSurfaceFair ==
    /\ SpecSurface
    /\ WF_vars(\E ok \in BOOLEAN : SfDrainStep(ok) /\ SurfaceOnly)
    /\ WF_vars(SfDrainEnd /\ SurfaceOnly)

\* The surface's Robot resource with the operator at the menu and the
\* arming system on its fixed-update tick.
ArmingOnly ==
    UNCHANGED <<netvars, statusvars, robotvars, lockvars, pwmvars, cbvars, peervars,
                loopback>>

ArmingNext ==
    \/ SfArm /\ ArmingOnly
    \/ SfDisarm /\ ArmingOnly
    \/ SfArming /\ ArmingOnly
    \/ \E u \in SharedUpdates : SfLinkEvent("Store", u) /\ ArmingOnly
    \/ SfLinkEvent("Connected", NoUpdate) /\ ArmingOnly
    \/ SfLinkEvent("Disconnected", NoUpdate) /\ ArmingOnly
    \/ SfDrainStart /\ UNCHANGED armvars /\ ArmingOnly
    \/ \E ok \in BOOLEAN : SfDrainStep(ok) /\ UNCHANGED armvars /\ ArmingOnly
    \/ SfDrainEnd /\ UNCHANGED armvars /\ ArmingOnly

SpecArming == Init /\ [][ArmingNext]_vars

\* The PWM driver: built for any period, then set_pwm called with any channel
\* and pulse width, in either build, on a bus whose transfers can fail and a
\* chip that can ignore a write.
PwmOnly ==
    UNCHANGED <<netvars, statusvars, robotvars, lockvars, surfacevars, cbvars, peervars,
                loopback, armvars>>

PwmNext ==
    \/ \E p \in Periods : PwmNew(p) /\ PwmOnly
    \/ \E c \in Channels, w \in PwmMicros, wraps \in BOOLEAN,
          write \in I2cResults, latched \in BOOLEAN, read \in I2cResults :
          PwmSetPwm(c, w, wraps, write, latched, read) /\ PwmOnly

SpecPwm == Init /\ [][PwmNext]_vars

\* Both ends of the link receiving each other's updates: the surface's Robot
\* resource with the armed flag emitted locally, and the StatusSystem fed a
\* peer and updates of the armed flag.
EchoNext ==
    \/ \E u \in SharedUpdates : SfEvent("Store", u) /\ SurfaceOnly
    \/ \E a \in ArmedValues : SfEmit(Update(ARMED, Some(a))) /\ SurfaceOnly
    \/ SfDrainStart /\ SurfaceOnly
    \/ \E ok \in BOOLEAN : SfDrainStep(ok) /\ SurfaceOnly
    \/ SfDrainEnd /\ SurfaceOnly
    \/ StPeerConnected /\ StatusOnly
    \/ \E a \in ArmedValues : StStoreArmed(Some(a)) /\ StatusOnly

SpecEcho == Init /\ [][EchoNext]_vars

\* ---------------------------------------------------------------- claims

\* The callbacks of the last event are exactly one call of fn for endpoint e.
FiredOnce(fn, e) ==
    /\ Len(ev.calls) = 1
    /\ ev.calls[1].fn = fn
    /\ ev.calls[1].endpoint = e

\* The last event was an Accepted that found a connection held.
AcceptedWhileHeld == ev.kind = "Accepted" /\ ev.pre # None

\* C1: the slot holds at most one connection, to a known endpoint and stamped
\* no later than the clock; and an Accepted that found a connection held has
\* replaced it only if that connection's time since its last packet, as
\* elapsed() measured it, was strictly greater than TIMEOUT.
C1_AtMostOneConnection ==
    /\ Len(connection) <= 1
    /\ connection # None =>
          /\ connection[1].endpoint \in Endpoints
          /\ connection[1].last_packet \in 0..now
    /\ (AcceptedWhileHeld /\ connection # ev.pre) =>
          Elapsed(ev.pre[1], ev.t_check) > TIMEOUT

C1_Witness ==
    /\ AcceptedWhileHeld
    /\ connection # ev.pre
    /\ connection[1].endpoint # ev.pre[1].endpoint

\* C2: after an Accepted for endpoint e that found the slot empty or the held
\* connection timed out, the slot holds a connection to e stamped with the
\* time of the accept and the connected callback has fired exactly once, for e.
C2_AcceptInstalls ==
    (ev.kind = "Accepted"
        /\ (ev.pre = None \/ Elapsed(ev.pre[1], ev.t_check) > TIMEOUT)) =>
       /\ connection = Some(Connection(ev.endpoint, ev.t_new))
       /\ FiredOnce("connected", ev.endpoint)

C2_Witness ==
    /\ AcceptedWhileHeld
    /\ Elapsed(ev.pre[1], ev.t_check) > TIMEOUT
    /\ ev.ret = "Err"
    /\ connection = Some(Connection(ev.endpoint, ev.t_new))

\* C3: after an Accepted that found a connection held whose last-packet age
\* was at most TIMEOUT, the held connection (endpoint and timestamp) is
\* unchanged and no callback has fired.
C3_AcceptDropped ==
    (AcceptedWhileHeld /\ Elapsed(ev.pre[1], ev.t_check) <= TIMEOUT) =>
       /\ connection = ev.pre
       /\ ev.calls = <<>>

C3_Witness ==
    /\ AcceptedWhileHeld
    /\ Elapsed(ev.pre[1], ev.t_check) = TIMEOUT
    /\ ev.endpoint # ev.pre[1].endpoint
    /\ connection = ev.pre

\* C4: once the held endpoint has sent no message for more than TIMEOUT, the
\* next Accepted candidate replaces it.
C4_DeadPeerReplaced ==
    [][\A e \in Endpoints, cb \in Results :
          (/\ NetAccepted(e, cb)
           /\ held_heard # None
           /\ now - held_heard[1] > TIMEOUT)
          => connection' = Some(Connection(e, now))]_vars

\* The last event was a Message whose bytes decoded, handled with a
\* connection held.
DecodedWhileHeld ==
    ev.kind = "Message" /\ ev.arg # DecodeError /\ ev.pre # None

\* C5: for a Message that decodes while a connection is held, handle_packet
\* is invoked once, with the decoded packet and the held connection already
\* stamped with the current time, which is also what the slot holds.
C5_RefreshedBeforeHandlePacket ==
    DecodedWhileHeld =>
       LET c == Connection(ev.pre[1].endpoint, ev.t_new)
       IN /\ connection = Some(c)
          /\ Len(ev.calls) = 1
          /\ ev.calls[1].fn = "handle_packet"
          /\ ev.calls[1].conn = Some(c)
          /\ ev.calls[1].packet = ev.arg

C5_Witness ==
    /\ DecodedWhileHeld
    /\ ev.pre[1].last_packet < ev.t_new
    /\ ev.calls # <<>>
    /\ ev.calls[1].conn[1].last_packet = now

\* C6: a Message handled while the slot is empty invokes no callback and
\* leaves the slot empty, whether or not its bytes decode.
C6_MessageWithoutConnection ==
    (ev.kind = "Message" /\ ev.pre = None) =>
       /\ ev.calls = <<>>
       /\ connection = None

C6_Witness ==
    /\ ev.kind = "Message"
    /\ ev.pre = None
    /\ ev.arg \in Packets
    /\ ev.ret = "Ok"

\* C7: after a Disconnected for any endpoint the slot is empty and the
\* disconnected callback has fired exactly once, for that endpoint, whatever
\* the slot held.
C7_DisconnectedClears ==
    ev.kind = "Disconnected" =>
       /\ connection = None
       /\ FiredOnce("disconnected", ev.endpoint)

C7_Witness ==
    /\ ev.kind = "Disconnected"
    /\ ev.pre # None
    /\ ev.pre[1].endpoint # ev.endpoint
    /\ Elapsed(ev.pre[1], ev.t_check) <= TIMEOUT
    /\ connection = None

\* C8: after Connected(e, true) the slot holds a connection to e stamped now
\* and connected has fired once for e; after Connected(e, false)
\* connection_failed has fired once for e and the slot is as it was.
C8_OutboundConnect ==
    ev.kind = "Connected" =>
       IF ev.arg = "success"
       THEN /\ connection = Some(Connection(ev.endpoint, ev.t_new))
            /\ FiredOnce("connected", ev.endpoint)
       ELSE /\ connection = ev.pre
            /\ FiredOnce("connection_failed", ev.endpoint)

C8_Witness ==
    /\ ev.kind = "Connected"
    /\ ev.arg = "failure"
    /\ ev.pre # None
    /\ connection = ev.pre

\* C9: a Message whose bytes fail to decode returns an error that is logged,
\* invokes no callback and leaves the slot, timestamp included, as it was.
C9_DecodeFailureDropped ==
    (ev.kind = "Message" /\ ev.arg = DecodeError) =>
       /\ ev.calls = <<>>
       /\ connection = ev.pre
       /\ ev.ret = "Err"
       /\ ev.logged

C9_Witness ==
    /\ ev.kind = "Message"
    /\ ev.arg = DecodeError
    /\ ev.pre # None
    /\ ev.pre[1].last_packet < ev.t_new
    /\ connection = ev.pre

\* Something failed while the last event was handled.
Failed ==
    \/ ev.kind = "Message" /\ ev.arg = DecodeError
    \/ \E i \in 1..Len(ev.calls) : ev.calls[i].result = "Err"
    \/ \E i \in 1..Len(ev.sends) : ev.sends[i].status # "Sent"

\* C10: a failure while handling an event (decode, callback, send) is logged
\* by handle_event, and the event loop keeps running unless stop is called.
C10_ErrorsContained ==
    /\ Failed => (ev.ret = "Err" /\ ev.logged /\ error_logged)
    /\ ~stop_called => running

C10_Witness ==
    /\ error_logged
    /\ running
    /\ ev.kind = "Message"
    /\ ev.ret = "Ok"
    /\ ev.calls # <<>>

\* The last event was a Broadcast signal.
BroadcastHandled == ev.kind = "Broadcast"

\* C11 as stated: a Broadcast makes exactly one send attempt when a
\* connection is held and none when the slot is empty.
C11_OneSendWheneverHeld ==
    BroadcastHandled => Len(ev.sends) = (IF ev.pre # None THEN 1 ELSE 0)

\* C11: a Broadcast signal is taken off the queue and makes exactly one send
\* attempt, to the held endpoint, when a connection is held and the packet
\* encodes, and none when the slot is empty or the packet does not encode;
\* an encode failure or a send status other than Sent is returned as an
\* error and logged, the packet is not queued again and the slot is
\* unchanged.
C11_AtMostOneSend ==
    [][Len(signals') < Len(signals) =>
          /\ signals' = Tail(signals)
          /\ connection' = connection
          /\ ev'.kind = "Broadcast"
          /\ ev'.arg[1] = Head(signals)
          /\ IF connection # None /\ ev'.arg[2] = "Encoded"
             THEN /\ Len(ev'.sends) = 1
                  /\ ev'.sends[1].endpoint = connection[1].endpoint
                  /\ ev'.sends[1].packet = Head(signals)
                  /\ (ev'.sends[1].status # "Sent") => (ev'.ret = "Err" /\ ev'.logged)
             ELSE /\ ev'.sends = <<>>
                  /\ connection # None => (ev'.ret = "Err" /\ ev'.logged)]_vars

C11_Witness ==
    /\ BroadcastHandled
    /\ ev.pre # None
    /\ Len(ev.sends) = 1
    /\ ev.sends[1].status = "ResourceNotFound"
    /\ ev.logged
    /\ signals = <<>>
    /\ connection = ev.pre

\* C12: once Network::stop has been called (it returns when the loop has
\* ended), no callback runs and neither the slot nor anything else the loop
\* writes changes again; a further stop changes nothing either.
C12_QuiescentAfterStop ==
    [][stop_called =>
          (/\ ~running /\ ~running' /\ stop_called'
           /\ UNCHANGED <<connection, ev, error_logged, held_heard, open>>)]_vars

C12_Witness ==
    /\ stop_called
    /\ ~running
    /\ connection # None
    /\ signals # <<>>
    /\ now > ev.t_check
    /\ open # {}

\* C13: a step that queues a signal (send_packet, on any thread) touches
\* neither the slot nor the loop's record; a send happens only in a step of
\* the running loop that takes the head of the signal queue, and goes to the
\* endpoint held in that step; and the slot changes only in a step of the
\* running loop.
C13_SlotConfinedToLoop ==
    [][/\ Len(signals') > Len(signals) =>
             UNCHANGED <<connection, ev, error_logged, held_heard, running>>
       /\ (ev' # ev /\ ev'.sends # <<>>) =>
             /\ running
             /\ signals # <<>>
             /\ signals' = Tail(signals)
             /\ connection # None
             /\ ev'.sends[1].endpoint = connection[1].endpoint
             /\ ev'.sends[1].packet = Head(signals)
       /\ connection' # connection => (running /\ signals' = signals)]_vars

C13_Witness ==
    /\ BroadcastHandled
    /\ ev.sends # <<>>
    /\ ev.sends[1].status = "Sent"
    /\ signals # <<>>
    /\ running
    /\ connection # None
    /\ ev.sends[1].endpoint = connection[1].endpoint

\* ------------------------------------------------ claims: StatusSystem

\* The armed flag is stored and is Armed.
IsArmed(st) == st[ARMED] # None /\ st[ARMED][1].value = "Armed"

\* The absolute speeds of the live motor-speed data at clock t: those of the
\* stored map unless it is absent or its last write is older than the maximum
\* age.
LiveAbsSpeeds(st, t) ==
    IF st[MOTOR_SPEED] = None \/ t - st[MOTOR_SPEED][1].written > MAX_UPDATE_AGE
    THEN {}
    ELSE {Abs(st[MOTOR_SPEED][1].value[k]) : k \in DOMAIN st[MOTOR_SPEED][1].value}

Largest(S) == CHOOSE x \in S : \A y \in S : y <= x

\* The status the precedence order NoPeer, Disarmed, Ready, Moving prescribes.
Precedence(st, p, t) ==
    CASE p = 0 -> NoPeer
      [] p # 0 /\ ~IsArmed(st) -> Disarmed
      [] p # 0 /\ IsArmed(st) /\ LiveAbsSpeeds(st, t) = {} -> Ready
      [] OTHER -> Moving(Largest(LiveAbsSpeeds(st, t)))

\* C14: whenever the StatusSystem recomputes the status, compute_status
\* returns what the precedence order prescribes from the peer count, the
\* stored armed flag and the live motor-speed data alone: NoPeer for a peer
\* count of 0, else Disarmed unless the armed flag is stored and Armed, else
\* Ready when no motor speed is live, else Moving with the largest absolute
\* motor speed.
C14_StatusPrecedence ==
    [][(now' = now /\ st_ev'.recomputed) =>
          st_ev'.computed = Some(Precedence(store', peers', now'))]_vars

\* An armed robot with a peer whose motor speeds have gone stale is Ready.
C14_Witness ==
    /\ st_ev.recomputed
    /\ st_ev.computed = Some(Ready)
    /\ peers = 1
    /\ IsArmed(store)
    /\ store[MOTOR_SPEED] # None
    /\ DOMAIN store[MOTOR_SPEED][1].value # {}
    /\ now - store[MOTOR_SPEED][1].written > MAX_UPDATE_AGE

\* C15: with one peer and the robot armed, when the reading the store holds
\* for motor A (40%) is fresh and the one it holds for motor B (61%) is older
\* than the maximum age, the computed status is Moving(40%).
C15_StaleMotorIgnored ==
    [][(/\ now' = now
        /\ st_ev'.recomputed
        /\ peers' = 1
        /\ IsArmed(store')
        /\ store'[MOTOR_SPEED] # None
        /\ DOMAIN store'[MOTOR_SPEED][1].value = {"A", "B"}
        /\ store'[MOTOR_SPEED][1].value["A"] = 40
        /\ Abs(store'[MOTOR_SPEED][1].value["B"]) = 61
        /\ reading_since'["A"] # None
        /\ now' - reading_since'["A"][1] <= MAX_UPDATE_AGE
        /\ reading_since'["B"] # None
        /\ now' - reading_since'["B"][1] > MAX_UPDATE_AGE)
       => st_ev'.computed = Some(Moving(40))]_vars

\* An event reaches the running StatusSystem in this step.
StatusTurn == now' = now /\ ~st_exited

\* The status the StatusSystem published last: the one under tokens::STATUS.
LastPublished == Get(store, STATUS)

\* C16 as stated: the StatusSystem never publishes the status it published
\* last.
C16_NeverTwiceInARow ==
    [][(StatusTurn /\ st_ev'.inserted # None) => st_ev'.inserted # LastPublished]_vars

\* C16: on every PeerConnected, PeerDisconnected, Store and SyncStore event
\* the StatusSystem recomputes the status; it inserts the computed status
\* into the store exactly when it differs from the status published last or
\* the event is SyncStore, which forgets the last status; otherwise the
\* published status stays as it was.
C16_PublishOnChangeOrSync ==
    [][StatusTurn =>
          /\ st_ev'.kind \in {"PeerConnected", "PeerDisconnected", "Store", "SyncStore"}
                => st_ev'.recomputed
          /\ st_ev'.recomputed => st_ev'.computed # None
          /\ st_ev'.inserted # None <=>
                /\ st_ev'.recomputed
                /\ (st_ev'.kind = "SyncStore" \/ st_ev'.computed # LastPublished)
          /\ st_ev'.inserted # None =>
                /\ st_ev'.inserted = st_ev'.computed
                /\ store'[STATUS] = Some(Entry(st_ev'.computed[1], now, "owned"))
                /\ Len(st_ev'.emitted) = 1
          /\ st_ev'.inserted = None =>
                /\ store'[STATUS] = store[STATUS]
                /\ st_ev'.emitted = <<>>]_vars

\* A store update recomputed the status published last, and nothing was
\* inserted.
C16_Witness ==
    /\ st_ev.kind = "Store"
    /\ st_ev.recomputed
    /\ st_ev.computed = Some(Moving(61))
    /\ st_ev.inserted = None
    /\ LastPublished = st_ev.computed

\* C17: once the guard has reported a Disconnected event and the StatusSystem
\* has handled the PeerDisconnected it causes, the published status is NoPeer.
C17_DisconnectDropsToNoPeer ==
    (ev.kind = "Disconnected" /\ st_ev.kind = "PeerDisconnected")
        => LastPublished = Some(NoPeer)

\* ------------------------------------------------- claims: RobotSystem

\* C18: once a system, the StatusSystem or the RobotSystem, has received an
\* Exit event, Exit is the last event it has handled: it handles no event that
\* follows.
C18_NoEventAfterExit ==
    /\ st_exited => st_ev.kind = "Exit"
    /\ rb_exit_seen => rb_ev.kind = "Exit"

\* The value the field of the i-th update of the batch held when that update
\* was applied: the value of the last earlier update of the field, or the one
\* the state held before the batch.
ValueBefore(i) ==
    LET f == rb_ev.batch[i].field
        earlier == {j \in 1..(i - 1) : rb_ev.batch[j].field = f}
    IN IF earlier = {} THEN rb_ev.pre[f]
       ELSE rb_ev.batch[CHOOSE j \in earlier : \A k \in earlier : k <= j].value

\* The indices of the updates of the batch that changed the state.
Changing == {i \in 1..Len(rb_ev.batch) : rb_ev.batch[i].value # ValueBefore(i)}

\* The updates at the indices of Changing, in batch order.
ChangingUpdates ==
    [n \in 1..Cardinality(Changing) |->
        rb_ev.batch[CHOOSE i \in Changing : Cardinality({j \in Changing : j <= i}) = n]]

\* C19: after a StateUpdate event the one outbound RobotState batch holds
\* exactly the updates of the event's batch that changed the robot state when
\* they were applied, each once and in batch order, and no update that left
\* its field unchanged.
C19_OnlyChangingUpdatesSent ==
    rb_ev.kind = "StateUpdate" =>
        /\ Len(rb_ev.sent) = 1
        /\ rb_ev.sent[1].event = "PacketSend"
        /\ rb_ev.sent[1].packets = ChangingUpdates

\* A batch of which the second update changed the state and the first did not.
C19_Witness ==
    /\ rb_ev.kind = "StateUpdate"
    /\ Len(rb_ev.batch) = 2
    /\ Changing = {2}
    /\ rb_ev.sent[1].packets = <<rb_ev.batch[2]>>

\* C20: a StateUpdate event none of whose updates changes the robot state
\* produces no outbound PacketSend event.
C20_NoChangeNoPacket ==
    (rb_ev.kind = "StateUpdate" /\ Changing = {}) => rb_ev.sent = <<>>

\* --------------------------------------- claims: robot state and its lock

\* The value a field holds once the whole batch is applied to `pre`: that of
\* the last update of the field, or the one it held before.
FinalValue(pre, batch, f) ==
    LET on == {i \in 1..Len(batch) : batch[i].field = f}
    IN IF on = {} THEN pre[f]
       ELSE batch[CHOOSE i \in on : \A j \in on : j <= i].value

WholeBatch(pre, batch) == [f \in Fields |-> FinalValue(pre, batch, f)]

\* C21: the updates of a StateUpdate batch are applied under one write-lock
\* acquisition: no reader holds the read lock while the write lock is held, a
\* partly applied batch exists only while it is held, and while a reader
\* holds the read lock during the handling of a batch the robot state is the
\* state before the whole batch or the state after the whole batch.
C21_ReadersSeeWholeBatches ==
    /\ rb_pc = "write" => readers = {}
    /\ (rb_cur.rest # <<>> /\ rb_cur.rest # rb_cur.batch) => rb_pc = "write"
    /\ (readers # {} /\ rb_pc # "idle") =>
          robot \in {rb_cur.pre, WholeBatch(rb_cur.pre, rb_cur.batch)}

\* A reader holds the read lock right after a batch that changed both fields.
C21_Witness ==
    /\ readers # {}
    /\ rb_pc = "send"
    /\ robot = WholeBatch(rb_cur.pre, rb_cur.batch)
    /\ \A f \in Fields : robot[f] # rb_cur.pre[f]

\* C22: the robot state changes only in a step of the RobotSystem that
\* applies the next update of the StateUpdate batch in hand under the write
\* lock; the RobotSystem takes its events one at a time, oldest first, and
\* only between batches; StateRefresh and ignored events leave the state and
\* the thread as they were; and when the write lock is dropped the state is
\* the state before the batch with the whole batch applied.
C22_WritesOnlyByStateUpdate ==
    [][/\ robot' # robot =>
             /\ rb_pc = "write"
             /\ rb_cur.rest # <<>>
             /\ robot' = [robot EXCEPT ![Head(rb_cur.rest).field] = Head(rb_cur.rest).value]
       /\ Len(inbox') < Len(inbox) =>
             /\ rb_pc = "idle"
             /\ inbox' = Tail(inbox)
             /\ robot' = robot
             /\ IF Head(inbox).kind = "StateUpdate"
                THEN /\ rb_cur'.batch = Head(inbox).batch
                     /\ rb_cur'.rest = Head(inbox).batch
                     /\ rb_cur'.pre = robot
                ELSE rb_pc' = "idle" /\ rb_cur' = rb_cur
       /\ (rb_pc = "write" /\ rb_pc' # "write") =>
             robot = WholeBatch(rb_cur.pre, rb_cur.batch)]_vars

\* A second batch waits in the listener while the first, which changed the
\* state, is being sent.
C22_Witness ==
    /\ rb_pc = "send"
    /\ robot # rb_cur.pre
    /\ inbox # <<>>
    /\ Head(inbox).kind = "StateUpdate"
    /\ Head(inbox).batch # rb_cur.batch


\* ------------------------------------------------- claims: the surface store

Owned(st, k) == st[k] # None /\ st[k][1].origin = "owned"

\* C23 (as stated): after a Disconnected event the entries received from the
\* peer are gone and a get of them is None, while the entries written locally
\* are the ones the store held before the event.
C23_DisconnectKeepsOwned ==
    [][sf_ev'.kind = "Disconnected" =>
          \A k \in SurfaceKeys :
              IF Owned(sf_store, k)
              THEN sf_store'[k] = sf_store[k]
              ELSE Get(sf_store', k) = None]_vars

\* C24: an update received from the peer is stored without the store's
\* callback being invoked: on the surface a RobotEvent::Store leaves the
\* update channel as it was, so updates_to_packets has nothing to send for it,
\* and in the StatusSystem an Event::Store makes the system emit nothing but
\* its own status.
C24_ReceivedUpdateNotEchoed ==
    [][/\ sf_ev'.kind = "Store" =>
            /\ channel' = channel
            /\ sf_ev'.errors = 0
            /\ sf_store' = HandleUpdateShared(sf_store, sf_ev'.update, now)
       /\ st_ev'.kind = "Store" =>
            \A i \in 1..Len(st_ev'.emitted) : st_ev'.emitted[i].update.key = STATUS]_vars

\* Both sides have just stored an update of the peer: the surface holds it as
\* a received entry with a local update still waiting in the channel, and the
\* StatusSystem published a status because of the one it received.
C24_Witness ==
    /\ sf_ev.kind = "Store"
    /\ sf_ev.update.payload # None
    /\ sf_store[sf_ev.update.key] # None
    /\ sf_store[sf_ev.update.key][1].origin = "shared"
    /\ channel # <<>>
    /\ st_ev.kind = "Store"
    /\ st_ev.emitted # <<>>


\* The packet of an update, and whether the loop sends it.
PacketOf(update) ==
    StorePacket(update.key,
                IF update.payload = None THEN None
                ELSE Some(Serialize(update.payload[1])))
Sendable(update, serialized) ==
    HasAdapter(update.key) /\ (update.payload = None \/ serialized)
RECURSIVE PacketsFor(_, _)
PacketsFor(taken, flags) ==
    IF taken = <<>> THEN <<>>
    ELSE (IF Sendable(Head(taken), Head(flags)) THEN <<PacketOf(Head(taken))>> ELSE <<>>)
             \o PacketsFor(Tail(taken), Tail(flags))
\* The store entry handle_update_owned leaves for an update.
FoldedOwned(st, update) ==
    /\ update.payload = None => st[update.key] = None
    /\ update.payload # None =>
          /\ Owned(st, update.key)
          /\ st[update.key][1].value = update.payload[1]

\* C26: in a run of updates_to_packets the updates taken so far and the ones
\* still in the channel are together exactly the channel the run started with
\* (no update is put back), the update taken last is in the store as a
\* locally-authored entry, the packets sent are one per taken update that has
\* an adapter and serializes, in the order taken, and a run that has started
\* comes to its end.
C26_DrainSendsOnceAndEnds ==
    /\ [](sf_ev.kind = "Drain" =>
            /\ sf_ev.taken \o channel = sf_ev.start
            /\ sf_ev.sent = PacketsFor(sf_ev.taken, sf_ev.flags)
            /\ sf_ev.taken # <<>> =>
                  FoldedOwned(sf_store, sf_ev.taken[Len(sf_ev.taken)]))
    /\ (sf_pc = "drain") ~> (sf_pc = "idle")

\* A run that started with a full channel has ended, having sent one packet
\* for each of its updates.
C26_Witness ==
    /\ sf_ev.kind = "Drain"
    /\ sf_pc = "idle"
    /\ Len(sf_ev.start) = MaxChannel
    /\ Len(sf_ev.sent) = MaxChannel
    /\ channel = <<>>


\* ------------------------------------------------ claims: the store's reads

Age(st, key, t) == t - st[key][1].written

Unsendable(taken, flags) ==
    {i \in 1..Len(taken) : ~Sendable(taken[i], flags[i])}

\* C29: in a run of updates_to_packets, an update whose key has no adapter or
\* whose value does not serialize gets no packet and one logged error, and the
\* updates queued behind it are still taken in their order: the packets sent
\* are those of the other updates, and the run ends only with every update of
\* the channel taken.
C29_EncodeErrorSkipsOneUpdate ==
    sf_ev.kind = "Drain" =>
        /\ sf_ev.errors = Cardinality(Unsendable(sf_ev.taken, sf_ev.flags))
        /\ Len(sf_ev.sent) = Len(sf_ev.taken) - sf_ev.errors
        /\ sf_ev.sent = PacketsFor(sf_ev.taken, sf_ev.flags)
        /\ Len(sf_ev.taken) <= Len(sf_ev.start)
        /\ sf_ev.taken = SubSeq(sf_ev.start, 1, Len(sf_ev.taken))
        /\ sf_pc = "idle" => sf_ev.taken = sf_ev.start

\* A run has ended whose first update could not be sent and whose second was:
\* one error, one packet.
C29_Witness ==
    /\ sf_ev.kind = "Drain"
    /\ sf_pc = "idle"
    /\ Len(sf_ev.taken) = 2
    /\ Unsendable(sf_ev.taken, sf_ev.flags) = {1}
    /\ sf_ev.errors = 1
    /\ sf_ev.sent = <<PacketOf(sf_ev.taken[2])>>


\* --------------------------------------------------- claims: the PWM driver

\* C30: set_pwm returns Ok only when both I2C transfers succeeded and the two
\* bytes read back are the two bytes it wrote; a failed transfer, or bytes
\* read back that differ, make it return an error.
C30_OkOnlyIfReadBackMatches ==
    /\ pwm_ev.result = "Ok" =>
          /\ pwm_ev.write = "Ok"
          /\ pwm_ev.read = "Ok"
          /\ pwm_ev.observed = pwm_ev.expected
    /\ (\/ pwm_ev.write = "Err"
        \/ pwm_ev.read = "Err"
        \/ (pwm_ev.read = "Ok" /\ pwm_ev.observed # pwm_ev.expected)) =>
          pwm_ev.result = "Err"

\* Both transfers succeeded but the chip holds other bytes than the ones
\* written: set_pwm returned an error.
C30_Witness ==
    /\ pwm_ev.result = "Err"
    /\ pwm_ev.write = "Ok"
    /\ pwm_ev.read = "Ok"
    /\ pwm_ev.observed # pwm_ev.expected


\* ------------------------------------- claims: the guard, endpoint by endpoint

\* C31: a Message whose bytes decode, handled with a connection held, is
\* attributed to that connection whichever endpoint it came from: the held
\* connection keeps its endpoint and is stamped with the time of the message,
\* and handle_packet is called once with it and the packet.
C31_MessageAttributedToHeld ==
    DecodedWhileHeld =>
       /\ connection = Some(Connection(ev.pre[1].endpoint, ev.t_new))
       /\ ev.calls = <<Call("handle_packet", NoEndpoint, connection, ev.arg, ev.ret)>>

\* A message from an endpoint whose accept was dropped has refreshed the
\* connection held for another endpoint.
C31_Witness ==
    /\ DecodedWhileHeld
    /\ ev.endpoint # ev.pre[1].endpoint
    /\ ev.endpoint \in open
    /\ ev.pre[1].last_packet < ev.t_new
    /\ connection = Some(Connection(ev.pre[1].endpoint, ev.t_new))

\* C32: a successful Connected(e) handled with a connection held replaces it
\* by a connection to e stamped now and fires connected for e only, whatever
\* the age of the held connection's last packet.
C32_ConnectedReplacesHeld ==
    (ev.kind = "Connected" /\ ev.arg = "success" /\ ev.pre # None) =>
       /\ connection = Some(Connection(ev.endpoint, ev.t_new))
       /\ connection # ev.pre
       /\ \A i \in 1..Len(ev.calls) :
             ev.calls[i].fn = "connected" /\ ev.calls[i].endpoint = ev.endpoint

\* A connection whose last packet is not older than TIMEOUT has been replaced
\* by an outbound connect.
C32_Witness ==
    /\ ev.kind = "Connected"
    /\ ev.arg = "success"
    /\ ev.pre # None
    /\ Elapsed(ev.pre[1], ev.t_check) <= TIMEOUT
    /\ ev.pre[1].endpoint # ev.endpoint
    /\ connection = Some(Connection(ev.endpoint, ev.t_new))


\* C33: when an Accepted candidate takes over from a timed-out connection the
\* guard invokes connected for the new endpoint and nothing else: the callback
\* it invoked last before was connected for the replaced endpoint, so two
\* connected callbacks follow each other with no disconnected between them.
C33_TakeoverWithoutDisconnected ==
    [][(/\ ev'.kind = "Accepted"
        /\ ev'.pre # None
        /\ connection' # connection) =>
          /\ TimedOut(ev'.pre[1], ev'.t_check)
          /\ ev'.calls = <<Call("connected", ev'.endpoint, None, NoPacket, ev'.ret)>>
          /\ last_cb = LifecycleCall("connected", ev'.pre[1].endpoint)
          /\ last_cb' = LifecycleCall("connected", ev'.endpoint)]_vars

\* An accept has just taken over from a timed-out connection to another
\* endpoint, and connected was invoked for the new endpoint.
C33_Witness ==
    /\ AcceptedWhileHeld
    /\ TimedOut(ev.pre[1], ev.t_check)
    /\ ev.endpoint # ev.pre[1].endpoint
    /\ connection = Some(Connection(ev.endpoint, ev.t_new))
    /\ last_cb = LifecycleCall("connected", ev.endpoint)


\* ------------------------------------------- claims: the status, once more

\* C34: the StatusSystem's peer counter is the number of PeerConnected events
\* it has processed less the number of PeerDisconnected events, and the
\* status it computes is NoPeer exactly when the counter is 0; with more
\* PeerDisconnected than PeerConnected events the counter is negative and the
\* status is not NoPeer.
C34_PeersIsDifference ==
    /\ peers = peer_up - peer_down
    /\ (ComputeStatus(store, peers, now) = NoPeer) <=> (peers = 0)
    /\ st_ev.recomputed => ((st_ev.computed = Some(NoPeer)) <=> (peers = 0))
    /\ peer_down > peer_up =>
          /\ peers < 0
          /\ ComputeStatus(store, peers, now) # NoPeer

\* One PeerDisconnected and no PeerConnected: the counter is -1 and the status
\* computed and published is Disarmed.
C34_Witness ==
    /\ peer_up = 0
    /\ peer_down = 1
    /\ peers = -1
    /\ st_ev.kind = "PeerDisconnected"
    /\ st_ev.inserted = Some(Disarmed)


\* The status is Moving at some speed.
IsMoving(status) == status \notin {NoPeer, Disarmed, Ready}

\* C35 (as stated): the Event::Store of a published status, delivered back to
\* the StatusSystem, leads to no further insert.
C35_FeedbackNeverPublishes ==
    [][StFeedback => (st_ev'.inserted = None /\ Len(loopback') < Len(loopback))]_vars

\* C35 (amended): the update fed back has no part in the recomputation it
\* triggers, which yields the status the system would compute without it;
\* nothing is inserted and the bus holds one event less, unless the clock has
\* moved on since the event was sent and the motor speeds have expired
\* meanwhile, and then the status published last was Moving and Ready is
\* published: so the events on their way back do not multiply.
C35_FeedbackPublishesOnlyExpiry ==
    [][StFeedback =>
          /\ st_ev'.computed = Some(ComputeStatus(store, peers, now))
          /\ Len(loopback') <= Len(loopback)
          /\ st_ev'.inserted = None =>
                /\ last_status' = last_status
                /\ loopback' = Tail(loopback)
          /\ st_ev'.inserted # None =>
                /\ Head(loopback).at < now
                /\ last_status # None
                /\ IsMoving(last_status[1])
                /\ st_ev'.inserted = Some(Ready)
                /\ GetAlive(store, MOTOR_SPEED, MAX_UPDATE_AGE, now) = None]_vars

\* The event of a published status has come back in the clock step it was sent
\* in: the status was computed again, nothing was inserted and the bus is
\* empty.
C35_Witness ==
    /\ st_ev.kind = "Store"
    /\ store[STATUS] # None
    /\ store[STATUS][1].origin = "shared"
    /\ store[STATUS][1].written = now
    /\ st_ev.recomputed
    /\ st_ev.inserted = None
    /\ last_status = Some(store[STATUS][1].value)
    /\ loopback = <<>>


\* C36: the turn that handles a SyncStore inserts the status it computes,
\* once, whatever last_status held before, and leaves it in last_status; a
\* later turn for another event whose recomputation yields what last_status
\* holds inserts nothing and leaves last_status alone, so the next insert
\* comes with a changed status or another SyncStore.
C36_SyncPublishesOnce ==
    [][StatusTurn =>
          /\ st_ev'.kind = "SyncStore" =>
                /\ st_ev'.inserted = Some(ComputeStatus(store, peers, now))
                /\ Len(st_ev'.emitted) = 1
                /\ st_ev'.emitted[1].update = Update(STATUS, st_ev'.inserted)
                /\ last_status' = st_ev'.inserted
          /\ (st_ev'.kind # "SyncStore" /\ st_ev'.recomputed
                  /\ st_ev'.computed = last_status) =>
                /\ st_ev'.inserted = None
                /\ st_ev'.emitted = <<>>
                /\ last_status' = last_status
          /\ (st_ev'.kind # "SyncStore" /\ st_ev'.inserted # None) =>
                st_ev'.inserted # last_status]_vars

\* A SyncStore has been handled with an armed robot and a peer: Ready was
\* published and is the last status.
C36_Witness ==
    /\ st_ev.kind = "SyncStore"
    /\ st_ev.inserted = Some(Ready)
    /\ last_status = Some(Ready)
    /\ store[STATUS] = Some(Entry(Ready, now, "owned"))
    /\ now > 0


\* --------------------------------------------- claims: the lock, once more

\* C37: while the RobotSystem is at events.send(PacketSend) for a StateUpdate
\* batch it does not hold the write lock: every thread that does not hold the
\* read lock yet can take it there, the whole batch is already applied, and
\* the step that sends leaves the robot state and the readers as they are.
C37_SendsUnlocked ==
    /\ rb_pc = "send" =>
          /\ \A r \in Readers \ readers : ENABLED ReaderAcquire(r)
          /\ rb_cur.rest = <<>>
          /\ robot = WholeBatch(rb_cur.pre, rb_cur.batch)
    /\ rb_pc = "write" => \A r \in Readers : ~ENABLED ReaderAcquire(r)

\* Every reader took the read lock while the thread was about to send the
\* packets of a batch.
C37_Witness ==
    /\ rb_pc = "send"
    /\ readers = Readers
    /\ rb_cur.packets # <<>>


\* ------------------------------------------- claims: the surface, once more

\* C38: every turn of the loop of updates_to_packets leaves the update it
\* took in the store as a locally-authored entry (or the key absent, for a
\* delete) and every other key as it was; when the key has no adapter or the
\* value does not serialize the turn does so all the same, though it sends no
\* packet and logs one error.
C38_FoldedBeforeLookup ==
    [][(sf_pc = "drain" /\ Len(sf_ev'.taken) = Len(sf_ev.taken) + 1) =>
          LET update == Head(channel)
              serialized == sf_ev'.flags[Len(sf_ev'.flags)]
          IN /\ sf_ev'.taken = Append(sf_ev.taken, update)
             /\ FoldedOwned(sf_store', update)
             /\ update.payload # None => sf_store'[update.key][1].written = now
             /\ \A k \in SurfaceKeys \ {update.key} : sf_store'[k] = sf_store[k]
             /\ ~Sendable(update, serialized) =>
                   /\ sf_ev'.sent = sf_ev.sent
                   /\ sf_ev'.errors = sf_ev.errors + 1]_vars

\* The run's only update so far had a value and could not be sent: the store
\* holds the value, no packet went out, one error was logged.
C38_Witness ==
    /\ sf_ev.kind = "Drain"
    /\ Len(sf_ev.taken) = 1
    /\ sf_ev.taken[1].payload # None
    /\ ~Sendable(sf_ev.taken[1], sf_ev.flags[1])
    /\ Owned(sf_store, sf_ev.taken[1].key)
    /\ sf_store[sf_ev.taken[1].key][1].value = sf_ev.taken[1].payload[1]
    /\ sf_ev.sent = <<>>
    /\ sf_ev.errors = 1


\* C39: the operator's arm selection starts as Disarmed; it changes only in
\* a call of arm() (to Armed) or disarm() (to Disarmed), so Connected,
\* Disconnected, received updates, the store's reset and updates_to_packets
\* leave it as it was; and every run of the arming system emits an ARMED
\* update carrying the selection of that moment, whatever the store holds and
\* whatever the link has done since the operator's last action.
C39_SelectionSurvivesReconnect ==
    /\ sf_armed = "Disarmed"
    /\ [][/\ sf_armed' # sf_armed =>
                /\ sf_ev'.kind \in {"Arm", "Disarm"}
                /\ sf_armed' = (IF sf_ev'.kind = "Arm" THEN "Armed" ELSE "Disarmed")
          /\ (sf_ev' # sf_ev /\ sf_ev'.kind = "Arm") => sf_armed' = "Armed"
          /\ (sf_ev' # sf_ev /\ sf_ev'.kind = "Disarm") => sf_armed' = "Disarmed"
          /\ (sf_ev' # sf_ev /\ sf_ev'.kind \in {"Connected", "Disconnected"}) =>
                /\ sf_armed' = sf_armed
                /\ sf_store' = Reset(sf_store)
          /\ (sf_ev'.kind = "Arming" /\ <<sf_ev, channel>>' # <<sf_ev, channel>>) =>
                /\ sf_armed' = sf_armed
                /\ sf_ev'.update = Update(ARMED, Some(sf_armed))
                /\ IF Len(channel) < MaxChannel
                   THEN channel' = Append(channel, Update(ARMED, Some(sf_armed)))
                        /\ sf_ev'.errors = 0
                   ELSE channel' = channel /\ sf_ev'.errors = 1]_vars

\* The operator selected Armed, the link dropped and came back, the store was
\* reset, and the arming system has just queued an Armed update on its own.
C39_Witness ==
    /\ sf_ev.kind = "Arming"
    /\ sf_ev.update = Update(ARMED, Some("Armed"))
    /\ sf_armed = "Armed"
    /\ since_action = "back"
    /\ sf_store[ARMED] = None
    /\ channel = <<Update(ARMED, Some("Armed"))>>


\* --------------------------------------------- claims: the PWM driver's scale

\* floor(pwm * 4096 / period) - 1 over the integers.
ScaledPulse(pwm, period) == (pwm * 4096) \div period - 1

\* A call of set_pwm on a channel of the chip with 0 < pwm <= period <= 65535.
PulseWithinPeriod ==
    /\ pwm_dev # None
    /\ pwm_ev.result # "none"
    /\ pwm_call.chan < 16
    /\ 0 < pwm_call.pwm
    /\ pwm_call.pwm <= pwm_dev[1].period
    /\ pwm_dev[1].period < U16

\* C40 (as stated): for 0 < pwm <= period <= 65535 no step of pwm_to_raw
\* overflows or underflows sixteen bits, so set_pwm does not panic in a build
\* with overflow checks, its result is floor(pwm * 4096 / period) - 1 in
\* either build, and that result fits twelve bits: the two bytes set_pwm
\* writes are its low byte and its high nibble.
C40_ScalesWithoutOverflow ==
    PulseWithinPeriod =>
        LET scaled == ScaledPulse(pwm_call.pwm, pwm_dev[1].period)
        IN /\ pwm_ev.result # "Panic"
           /\ scaled >= 0
           /\ scaled < 4096
           /\ pwm_ev.expected = <<scaled % 256, scaled \div 256>>

====
